---- MODULE Spec2Model ----
(***************************************************************************)
(* FuzePicker content script (src/content.js): the element picker and the  *)
(* two locator functions getXPath and generateSelector, over an explicit   *)
(* model of the DOM nodes they read; the extension's background script     *)
(* (src/background.js); and the backend (src/backend), its middleware and  *)
(* its routes over the collections they keep.                              *)
(***************************************************************************)
EXTENDS Integers, Sequences, FiniteSets, TLC

VARIABLES
    dom,                \* the document tree: node -> its fields and links
    call,               \* the latest direct call of a locator function
    isPickerActive,     \* content.js:2
    highlightedElement, \* content.js:3
    selectedElement,    \* content.js:4
    toolbar,            \* content.js:6
    cursor,             \* document.body.style.cursor
    storage,            \* chrome.storage.local
    outbox,             \* chrome.runtime.sendMessage calls, oldest first
    lastEvent,          \* the DOM event the document listeners handled last
    currentSelections,  \* background.js:5, the values of the Map, oldest first
    aiTaskQueue,        \* background.js:6
    aiCalls,            \* handleAiTask invocations waiting at an await
    now,                \* Date.now() of the background script
    bgEvent,            \* what the background handler that ran last did
    rateLimitStore,     \* global.rateLimitStore: key -> timestamps
    serverTime,         \* Date.now() of the backend
    passed,             \* key -> the times at which aiRateLimit called next()
    rateEvent,          \* the answer of aiRateLimit to the latest request
    Element,            \* the documents of the Element collection
    Discussion,         \* the documents of the Discussion collection
    AiOutput,           \* the documents of the AiOutput collection
    handlers,           \* route handlers waiting at an await
    nextId,             \* the next _id the database gives out
    response,           \* the response sent by the step just taken
    users,              \* routes/auth.js:10, the Map of the users by id
    request             \* req of the latest request, as authMiddleware left it

backgroundVars == <<currentSelections, aiTaskQueue, aiCalls, now, bgEvent>>

rateVars == <<rateLimitStore, serverTime, passed, rateEvent>>

storeVars == <<Element, Discussion, AiOutput, handlers, nextId, response>>

authVars == <<users, request>>

\* everything outside the page and its content script
offPage == <<backgroundVars, rateVars, storeVars, authVars>>

vars == <<dom, call, isPickerActive, highlightedElement, selectedElement,
          toolbar, cursor, storage, outbox, lastEvent, offPage>>

pageVars == <<dom, call, isPickerActive, highlightedElement, selectedElement,
              toolbar, cursor, storage, outbox, lastEvent>>

\* what an action of the background script leaves alone
notBackground == <<pageVars, rateVars, storeVars, authVars>>

\* what aiRateLimit leaves alone
notRate == <<pageVars, backgroundVars, storeVars, authVars>>

\* what a route over the collections leaves alone
notStore == <<pageVars, backgroundVars, rateVars, authVars>>

\* the background script before its first message
BackgroundIdle ==
    /\ currentSelections = <<>>
    /\ aiTaskQueue = <<>>
    /\ aiCalls = {}
    /\ now = 0
    /\ bgEvent = [type |-> "none"]

\* the rate limiter before its first request
RateIdle ==
    /\ rateLimitStore = [k \in {} |-> <<>>]
    /\ serverTime = 0
    /\ passed = [k \in {} |-> <<>>]
    /\ rateEvent = [type |-> "none"]

NoResponse ==
    [route |-> "", status |-> 0, id |-> 0, userId |-> "", duplicate |-> FALSE,
     returned |-> {}]

\* the collections of an empty database, and no request
StoreIdle ==
    /\ Element = {}
    /\ Discussion = {}
    /\ AiOutput = {}
    /\ handlers = {}
    /\ nextId = 1
    /\ response = NoResponse

\* a token: the id of its payload, the key that signed it, the instant it
\* expires; malformed is a string that is no token
JwtSecret == "JWT_SECRET"
Token(id, key, exp) == [kind |-> "jwt", id |-> id, key |-> key, exp |-> exp]
MalformedToken == [kind |-> "malformed", id |-> "", key |-> "", exp |-> 0]
EmptyToken == [kind |-> "empty", id |-> "", key |-> "", exp |-> 0]

\* the Authorization header: absent, 'Bearer ' and a token, or a bare token
Header(scheme, token) == [scheme |-> scheme, token |-> token]
NoHeader == Header("none", EmptyToken)

NoRequest == [route |-> "", authorization |-> NoHeader, next |-> FALSE,
              status |-> 0, user |-> "", handled |-> FALSE]

\* no user, and no request to a route behind authMiddleware
AuthIdle ==
    /\ users = <<>>
    /\ request = NoRequest

OffPageIdle == BackgroundIdle /\ RateIdle /\ StoreIdle /\ AuthIdle

pickerVars == <<isPickerActive, highlightedElement, selectedElement,
                toolbar, cursor, storage, outbox, lastEvent>>

-----------------------------------------------------------------------------
(* Bounds of the model.                                                    *)

\* nodes of a document besides the #document and <html> nodes
MaxNodes == 3
\* children of the list parent in a list document
MaxSiblings == 5
\* page nodes below <body> in a picker document
MaxPageNodes == 1
\* messages kept in the outbox
MaxMessages == 3

-----------------------------------------------------------------------------
(* JavaScript values.                                                      *)

Str(s) == [type |-> "string", val |-> s]
JsNull == [type |-> "null", val |-> ""]
TypeError == [type |-> "TypeError", val |-> ""]

\* the null node reference
Null == 0

ELEMENT_NODE == 1
TEXT_NODE == 3
DOCUMENT_NODE == 9

-----------------------------------------------------------------------------
(* Node kinds the documents are built from.  classAttr is the value of the *)
(* class attribute as a sequence of tokens, each a class name or a blank.  *)

Kind(type, name, id, cls) ==
    [nodeType |-> type, nodeName |-> name, id |-> id, classAttr |-> cls]

Text == Kind(TEXT_NODE, "#text", "", <<>>)
Div == Kind(ELEMENT_NODE, "DIV", "", <<>>)
Li == Kind(ELEMENT_NODE, "LI", "", <<>>)
Ul == Kind(ELEMENT_NODE, "UL", "", <<>>)
DivToolbar == Kind(ELEMENT_NODE, "DIV", "toolbar", <<"btn", " ", "primary">>)
DivBtnPrimary == Kind(ELEMENT_NODE, "DIV", "", <<"btn", " ", "primary">>)
DivBlankClass == Kind(ELEMENT_NODE, "DIV", "", <<" ">>)
BodyPage == Kind(ELEMENT_NODE, "BODY", "page", <<>>)
Body == Kind(ELEMENT_NODE, "BODY", "", <<>>)
Html == Kind(ELEMENT_NODE, "HTML", "", <<>>)
DocumentKind == Kind(DOCUMENT_NODE, "#document", "", <<>>)
\* the picker's own container, content.js:28-29
ShadowHost == Kind(ELEMENT_NODE, "DIV", "fuzepicker-shadow-host", <<>>)

ElementKinds == {Div, DivToolbar, DivBtnPrimary, DivBlankClass, BodyPage}
NodeKinds == ElementKinds \cup {Text}
PlainKinds == {Text, Li, Div}
ListParents == {Ul, DivToolbar}
PageKinds == {DivToolbar, DivBtnPrimary}

-----------------------------------------------------------------------------
(* Building a document.  A layout is a sequence of levels, each the ordered *)
(* child list of one node of the level above (the node spine names).        *)

SeqsUpTo(S, n) == UNION {[1..k -> S] : k \in 1..n}

ElementIndexes(sibs) == {i \in 1..Len(sibs) : sibs[i].nodeType = ELEMENT_NODE}

RECURSIVE Below(_, _)
Below(kinds, budget) ==
    IF budget = 0 THEN {[levels |-> <<>>, spine |-> <<>>]}
    ELSE {[levels |-> <<>>, spine |-> <<>>]} \cup
         UNION {UNION {
             IF rest.levels = <<>>
             THEN {[levels |-> <<sibs>>, spine |-> <<>>]}
             ELSE {[levels |-> <<sibs>> \o rest.levels,
                    spine |-> <<i>> \o rest.spine] : i \in ElementIndexes(sibs)}
             : rest \in Below(kinds, budget - Len(sibs))}
           : sibs \in SeqsUpTo(kinds, budget)}

RECURSIVE SumLen(_, _)
SumLen(levels, k) == IF k = 0 THEN 0 ELSE Len(levels[k]) + SumLen(levels, k - 1)

\* attached: the layout hangs below  #document > html ; otherwise its first
\* level is a single root element without a parent
BuildDom(attached, layout) ==
    LET levels == layout.levels
        spine == layout.spine
        base == IF attached THEN 2 ELSE 0
        total == base + SumLen(levels, Len(levels))
        Offset(k) == base + SumLen(levels, k - 1)
        LevelOf(n) == CHOOSE k \in 1..Len(levels) :
                          Offset(k) < n /\ n <= Offset(k) + Len(levels[k])
        Link(n) ==
            LET k == LevelOf(n)
                i == n - Offset(k)
            IN  [parentNode |-> IF k = 1 THEN (IF attached THEN 2 ELSE Null)
                                ELSE Offset(k - 1) + spine[k - 1],
                 previousSibling |-> IF i > 1 THEN n - 1 ELSE Null,
                 nextSibling |-> IF i < Len(levels[k]) THEN n + 1 ELSE Null,
                 nodeType |-> levels[k][i].nodeType,
                 nodeName |-> levels[k][i].nodeName,
                 id |-> levels[k][i].id,
                 classAttr |-> levels[k][i].classAttr]
        Top(kind, parent) ==
            [parentNode |-> parent, previousSibling |-> Null, nextSibling |-> Null,
             nodeType |-> kind.nodeType, nodeName |-> kind.nodeName,
             id |-> kind.id, classAttr |-> kind.classAttr]
    IN  [n \in 1..total |->
            IF attached /\ n = 1 THEN Top(DocumentKind, Null)
            ELSE IF attached /\ n = 2 THEN Top(Html, 1)
            ELSE Link(n)]

RootedLayouts(budget) ==
    {[levels |-> <<<<root>>>> \o rest.levels,
      spine |-> IF rest.levels = <<>> THEN <<>> ELSE <<1>> \o rest.spine] :
        root \in ElementKinds, rest \in Below(NodeKinds, budget - 1)}

ListLayouts ==
    {[levels |-> <<<<parent>>, sibs>>, spine |-> <<1>>] :
        parent \in ListParents, sibs \in SeqsUpTo(PlainKinds, MaxSiblings)}

Documents ==
    {BuildDom(FALSE, l) : l \in RootedLayouts(MaxNodes) \cup ListLayouts}
    \cup {BuildDom(TRUE, l) : l \in Below(NodeKinds, MaxNodes) \cup ListLayouts}

Nodes(d) == DOMAIN d
Elements(d) == {n \in DOMAIN d : d[n].nodeType = ELEMENT_NODE}

-----------------------------------------------------------------------------
(* DOM accessors.                                                          *)

\* Element.tagName of an HTML element; other nodes have none
tagName(d, n) == d[n].nodeName

\* Node.parentElement: the parent when it is an element, else null
parentElement(d, n) ==
    LET p == d[n].parentNode
    IN  IF p # Null /\ d[p].nodeType = ELEMENT_NODE THEN p ELSE Null

\* String.prototype.toLowerCase over the names that occur
toLowerCase(s) ==
    CASE s = "DIV" -> "div"
      [] s = "LI" -> "li"
      [] s = "UL" -> "ul"
      [] s = "BODY" -> "body"
      [] s = "HTML" -> "html"
      [] s = "#text" -> "#text"
      [] s = "#document" -> "#document"
      [] OTHER -> s

RECURSIVE Concat(_)
Concat(tokens) ==
    IF tokens = <<>> THEN "" ELSE Head(tokens) \o Concat(Tail(tokens))

\* Element.className: the class attribute as one string
className(d, n) == Concat(d[n].classAttr)

\* Element.classList: the attribute split on blanks, each class once
RECURSIVE OrderedSet(_, _)
OrderedSet(tokens, seen) ==
    IF tokens = <<>> THEN <<>>
    ELSE IF Head(tokens) = " " \/ Head(tokens) \in seen
         THEN OrderedSet(Tail(tokens), seen)
         ELSE <<Head(tokens)>> \o OrderedSet(Tail(tokens), seen \cup {Head(tokens)})

classList(d, n) == OrderedSet(d[n].classAttr, {})

\* Array.prototype.join
RECURSIVE join(_, _)
join(parts, sep) ==
    IF parts = <<>> THEN ""
    ELSE IF Len(parts) = 1 THEN parts[1]
    ELSE parts[1] \o sep \o join(Tail(parts), sep)

-----------------------------------------------------------------------------
(* getXPath, content.js:245-278.                                           *)

\* element.id is a non-empty string (undefined on nodes that are no elements)
hasId(d, n) == d[n].nodeType = ELEMENT_NODE /\ d[n].id # ""

\* variant: every element sibling counts, whatever its name
sameNamedElement_AnyElement(d, sibling, element) ==
    d[sibling].nodeType = ELEMENT_NODE

sameNamedElement(d, sibling, element) ==
    d[sibling].nodeType = ELEMENT_NODE /\ d[sibling].nodeName = d[element].nodeName

\* the loop over previousSibling, lines 254-261
RECURSIVE nbOfPreviousSiblings(_, _, _)
nbOfPreviousSiblings(d, sibling, element) ==
    IF sibling = Null THEN 0
    ELSE (IF sameNamedElement(d, sibling, element) THEN 1 ELSE 0)
         + nbOfPreviousSiblings(d, d[sibling].previousSibling, element)

\* the loop over nextSibling, lines 263-270
RECURSIVE hasNextSiblings(_, _, _)
hasNextSiblings(d, sibling, element) ==
    IF sibling = Null THEN FALSE
    ELSE IF sameNamedElement(d, sibling, element) THEN TRUE
    ELSE hasNextSiblings(d, d[sibling].nextSibling, element)

\* variant: only the preceding siblings decide whether an index is written
xpathPart_PrecedingOnly(d, element) ==
    LET nb == nbOfPreviousSiblings(d, d[element].previousSibling, element)
        index == IF nb # 0 THEN "[" \o ToString(nb + 1) \o "]" ELSE ""
    IN  toLowerCase(d[element].nodeName) \o index

\* lines 272-273: the entry of parts for one element
xpathPart(d, element) ==
    LET nb == nbOfPreviousSiblings(d, d[element].previousSibling, element)
        next == hasNextSiblings(d, d[element].nextSibling, element)
        index == IF nb # 0 \/ next THEN "[" \o ToString(nb + 1) \o "]" ELSE ""
    IN  toLowerCase(d[element].nodeName) \o index

\* variant: the walk ends below the first ancestor that has an id
RECURSIVE xpathLoop_StopAtId(_, _, _)
xpathLoop_StopAtId(d, element, acc) ==
    IF element # Null /\ d[element].nodeType = ELEMENT_NODE
       /\ (acc.walk = <<>> \/ d[element].id = "")
    THEN xpathLoop_StopAtId(d, d[element].parentNode,
                   [parts |-> <<xpathPart(d, element)>> \o acc.parts,
                    walk |-> acc.walk \o <<element>>])
    ELSE acc

\* the while loop of lines 251-275, from element upward: parts as unshift
\* leaves it, and walk, the elements the loop body ran for, in that order
RECURSIVE xpathLoop(_, _, _)
xpathLoop(d, element, acc) ==
    IF element # Null /\ d[element].nodeType = ELEMENT_NODE
    THEN xpathLoop(d, d[element].parentNode,
                   [parts |-> <<xpathPart(d, element)>> \o acc.parts,
                    walk |-> acc.walk \o <<element>>])
    ELSE acc

\* one run of getXPath: the value returned, with parts and walk at the return
getXPathRun(d, element) ==
    IF hasId(d, element)
    THEN [result |-> Str("//*[@id=\"" \o d[element].id \o "\"]"),
          parts |-> <<>>, walk |-> <<>>]
    ELSE LET loop == xpathLoop(d, element, [parts |-> <<>>, walk |-> <<>>])
         IN  [result |-> IF Len(loop.parts) # 0
                         THEN Str("/" \o join(loop.parts, "/"))
                         ELSE JsNull,
              parts |-> loop.parts, walk |-> loop.walk]

getXPath(d, element) == getXPathRun(d, element).result

-----------------------------------------------------------------------------
(* generateSelector, content.js:280-300.                                   *)

\* lines 285-290: the tag and the classes of the element itself
selectorOfElement(d, element) ==
    LET tag == toLowerCase(tagName(d, element))
    IN  IF className(d, element) # ""
        THEN tag \o "." \o join(classList(d, element), ".")
        ELSE tag

\* variant: the parent is always named by its tag
parentSelector_TagOnly(d, parent) == toLowerCase(tagName(d, parent))

\* line 295
parentSelector(d, parent) ==
    IF d[parent].id # "" THEN "#" \o d[parent].id
    ELSE toLowerCase(tagName(d, parent))

\* line 294
needsParent(d, parent) == parent # Null /\ tagName(d, parent) # "BODY"

\* variant: the id is written after the tag
generateSelector_TagBeforeId(d, element) ==
    IF d[element].nodeType # ELEMENT_NODE THEN TypeError
    ELSE IF hasId(d, element)
    THEN Str(toLowerCase(tagName(d, element)) \o "#" \o d[element].id)
    ELSE LET selector == selectorOfElement(d, element)
             parent == parentElement(d, element)
         IN  IF needsParent(d, parent)
             THEN Str(parentSelector(d, parent) \o " > " \o selector)
             ELSE Str(selector)

\* variant: the element under the pointer carries a class while highlighted
generateSelector_HighlightClass(d, element) ==
    IF hasId(d, element) THEN Str("#" \o d[element].id)
    ELSE IF d[element].nodeType # ELEMENT_NODE THEN TypeError
    ELSE LET marked == IF element = highlightedElement
                       THEN ".fuzepicker-highlight" ELSE ""
             selector == selectorOfElement(d, element) \o marked
             parent == parentElement(d, element)
         IN  IF needsParent(d, parent)
             THEN Str(parentSelector(d, parent) \o " > " \o selector)
             ELSE Str(selector)

\* variant: parent.tagName is read without the test for a parent
generateSelector_NoParentTest(d, element) ==
    IF hasId(d, element) THEN Str("#" \o d[element].id)
    ELSE IF d[element].nodeType # ELEMENT_NODE THEN TypeError
    ELSE LET selector == selectorOfElement(d, element)
             parent == parentElement(d, element)
         IN  IF parent = Null THEN TypeError
             ELSE IF tagName(d, parent) # "BODY"
             THEN Str(parentSelector(d, parent) \o " > " \o selector)
             ELSE Str(selector)

generateSelector(d, element) ==
    IF hasId(d, element) THEN Str("#" \o d[element].id)
    ELSE IF d[element].nodeType # ELEMENT_NODE
    THEN TypeError   \* line 285: tagName is undefined on such a node
    ELSE LET selector == selectorOfElement(d, element)
             parent == parentElement(d, element)
         IN  IF needsParent(d, parent)
             THEN Str(parentSelector(d, parent) \o " > " \o selector)
             ELSE Str(selector)

-----------------------------------------------------------------------------
(* The locator functions called on any node of a document.                 *)

NoCall == [fn |-> "none", node |-> Null, result |-> JsNull,
           parts |-> <<>>, walk |-> <<>>]

NoEvent == [type |-> "none",
            defaultPrevented |-> FALSE, propagationStopped |-> FALSE]

PickerIdle ==
    /\ isPickerActive = FALSE
    /\ highlightedElement = Null
    /\ selectedElement = JsNull
    /\ toolbar = Null
    /\ cursor = ""
    /\ storage = JsNull
    /\ outbox = <<>>
    /\ lastEvent = NoEvent

Init ==
    /\ dom \in Documents
    /\ call = NoCall
    /\ PickerIdle
    /\ OffPageIdle

CallGetXPath(n) ==
    /\ LET run == getXPathRun(dom, n)
       IN  call' = [fn |-> "getXPath", node |-> n, result |-> getXPath(dom, n),
                    parts |-> run.parts, walk |-> run.walk]
    /\ UNCHANGED <<offPage, dom, pickerVars>>

CallGenerateSelector(n) ==
    /\ call' = [fn |-> "generateSelector", node |-> n,
                result |-> generateSelector(dom, n),
                parts |-> <<>>, walk |-> <<>>]
    /\ UNCHANGED <<offPage, dom, pickerVars>>

Next ==
    \/ \E n \in Nodes(dom) : CallGetXPath(n)
    \/ \E n \in Nodes(dom) : CallGenerateSelector(n)

Spec == Init /\ [][Next]_vars

-----------------------------------------------------------------------------
(* The picker, content.js:11-201 and 302-382, in the page it is loaded in: *)
(* createShadowDom has appended the shadow host as the last child of body. *)

PickerLayouts ==
    {[levels |-> IF page.levels = <<>>
                 THEN <<<<Body>>, <<ShadowHost>>>>
                 ELSE <<<<Body>>, page.levels[1] \o <<ShadowHost>>>>
                      \o Tail(page.levels),
      spine |-> <<1>> \o page.spine] :
        page \in Below(PageKinds, MaxPageNodes)}

PickerDocuments == {BuildDom(TRUE, l) : l \in PickerLayouts}

Tasks == {"discuss", "figma", "playwright", "react"}
Keys == {"Escape", "Enter"}

\* Element.closest('#fuzepicker-shadow-host') finds an element
RECURSIVE closestShadowHost(_, _)
closestShadowHost(d, n) ==
    IF n = Null THEN FALSE
    ELSE IF d[n].id = "fuzepicker-shadow-host" THEN TRUE
    ELSE closestShadowHost(d, parentElement(d, n))

\* variant: only the switch of the picker is tested
ignored_InactiveOnly(target) == ~isPickerActive

\* the test that opens handleMouseOver, handleMouseOut and handleClick
ignored(target) == ~isPickerActive \/ closestShadowHost(dom, target)

\* lines 203-243; element names the node the data was read from, the text,
\* html, styles, attributes and boundingBox fields are left out
extractElementData(element) ==
    [type |-> "object",
     element |-> element,
     id |-> IF dom[element].id # "" THEN Str(dom[element].id) ELSE JsNull,
     tag |-> toLowerCase(tagName(dom, element)),
     classes |-> classList(dom, element),
     xpath |-> getXPath(dom, element),
     selector |-> generateSelector(dom, element)]

Event(type, prevented, stopped) ==
    [type |-> type, defaultPrevented |-> prevented, propagationStopped |-> stopped]

PickerInit ==
    /\ dom \in PickerDocuments
    /\ call = NoCall
    /\ PickerIdle
    /\ OffPageIdle

\* lines 118-127, reached from the runtime message 'togglePicker'
togglePicker ==
    /\ isPickerActive' = ~isPickerActive
    /\ IF isPickerActive
       THEN highlightedElement' = Null /\ toolbar' = Null
       ELSE UNCHANGED <<highlightedElement, toolbar>>
    /\ cursor' = IF ~isPickerActive THEN "crosshair" ELSE "default"
    /\ UNCHANGED <<offPage, dom, call, selectedElement, storage, outbox, lastEvent>>

\* lines 129-133 and 160-175
handleMouseOver(target) ==
    /\ lastEvent' = Event("mouseover", FALSE, FALSE)
    /\ IF ignored(target)
       THEN UNCHANGED highlightedElement
       ELSE highlightedElement' = target
    /\ UNCHANGED <<offPage, dom, call, isPickerActive, selectedElement, toolbar,
                   cursor, storage, outbox>>

\* lines 135-139 and 177-183
handleMouseOut(target) ==
    /\ lastEvent' = Event("mouseout", FALSE, FALSE)
    /\ IF ignored(target)
       THEN UNCHANGED highlightedElement
       ELSE highlightedElement' = Null
    /\ UNCHANGED <<offPage, dom, call, isPickerActive, selectedElement, toolbar,
                   cursor, storage, outbox>>

\* variant: the clicked element is marked with a class of the picker
handleClick_MarksTarget(target) ==
    IF ignored(target)
    THEN /\ lastEvent' = Event("click", FALSE, FALSE)
         /\ UNCHANGED <<offPage, dom, call, isPickerActive, highlightedElement,
                        selectedElement, toolbar, cursor, storage, outbox>>
    ELSE /\ Len(outbox) < MaxMessages
         /\ lastEvent' = Event("click", TRUE, TRUE)
         /\ dom' = [dom EXCEPT ![target].classAttr =
                        IF @ = <<>> THEN <<"fuzepicker-selected">>
                        ELSE @ \o <<" ", "fuzepicker-selected">>]
         /\ selectedElement' = [type |-> "object",
                                element |-> target,
                                id |-> IF dom[target].id # ""
                                       THEN Str(dom[target].id) ELSE JsNull,
                                tag |-> toLowerCase(tagName(dom, target)),
                                classes |-> classList(dom', target),
                                xpath |-> getXPath(dom', target),
                                selector |-> generateSelector(dom', target)]
         /\ storage' = [type |-> "object", selectedElement |-> selectedElement']
         /\ outbox' = Append(outbox, [action |-> "elementSelected", task |-> "",
                                      element |-> selectedElement'])
         /\ toolbar' = target
         /\ UNCHANGED <<offPage, call, isPickerActive, highlightedElement, cursor>>

\* lines 141-149, with selectElement (185-201) and showToolbar (302-348)
handleClick(target) ==
    IF ignored(target)
    THEN /\ lastEvent' = Event("click", FALSE, FALSE)
         /\ UNCHANGED <<offPage, dom, call, isPickerActive, highlightedElement,
                        selectedElement, toolbar, cursor, storage, outbox>>
    ELSE /\ Len(outbox) < MaxMessages
         /\ lastEvent' = Event("click", TRUE, TRUE)
         /\ selectedElement' = extractElementData(target)
         /\ storage' = [type |-> "object", selectedElement |-> selectedElement']
         /\ outbox' = Append(outbox, [action |-> "elementSelected", task |-> "",
                                      element |-> selectedElement'])
         /\ toolbar' = target
         /\ UNCHANGED <<offPage, dom, call, isPickerActive, highlightedElement, cursor>>

\* lines 151-158
handleKeyDown(key) ==
    /\ lastEvent' = Event("keydown", FALSE, FALSE)
    /\ IF key = "Escape"
       THEN /\ toolbar' = Null
            /\ IF isPickerActive
               THEN /\ isPickerActive' = FALSE
                    /\ highlightedElement' = Null
                    /\ cursor' = "default"
               ELSE UNCHANGED <<isPickerActive, highlightedElement, cursor>>
       ELSE UNCHANGED <<isPickerActive, highlightedElement, toolbar, cursor>>
    /\ UNCHANGED <<offPage, dom, call, selectedElement, storage, outbox>>

\* the toolbar's close button, line 338, and hideToolbar, lines 350-355
closeToolbar ==
    /\ toolbar # Null
    /\ toolbar' = Null
    \* the click then reaches handleClick with the shadow host as target
    /\ lastEvent' = Event("click", FALSE, FALSE)
    /\ UNCHANGED <<offPage, dom, call, isPickerActive, highlightedElement,
                   selectedElement, cursor, storage, outbox>>

\* a toolbar button with data-action, lines 340-345 and 357-382
handleToolbarAction(action) ==
    /\ toolbar # Null
    /\ Len(outbox) + 2 <= MaxMessages
    /\ outbox' = outbox \o <<[action |-> "aiTask", task |-> action,
                              element |-> selectedElement],
                             [action |-> "openPopup", task |-> "",
                              element |-> JsNull]>>
    /\ toolbar' = Null
    /\ lastEvent' = Event("click", FALSE, FALSE)
    /\ UNCHANGED <<offPage, dom, call, isPickerActive, highlightedElement,
                   selectedElement, cursor, storage>>

PickerNext ==
    \/ togglePicker
    \/ \E target \in Elements(dom) : handleMouseOver(target)
    \/ \E target \in Elements(dom) : handleMouseOut(target)
    \/ \E target \in Elements(dom) : handleClick(target)
    \/ \E key \in Keys : handleKeyDown(key)
    \/ closeToolbar
    \/ \E action \in Tasks : handleToolbarAction(action)

PickerSpec == PickerInit /\ [][PickerNext]_vars

-----------------------------------------------------------------------------
(* What the properties say of a document, stated over the child sets of    *)
(* the tree rather than over the sibling links the code follows.  The      *)
(* children of a node are numbered in document order.                      *)

IsElement(d, n) == d[n].nodeType = ELEMENT_NODE
NoId(d, n) == d[n].id = ""

SameTagSiblings(d, e) ==
    {m \in Nodes(d) \ {e} : /\ d[e].parentNode # Null
                            /\ d[m].parentNode = d[e].parentNode
                            /\ IsElement(d, m)
                            /\ d[m].nodeName = d[e].nodeName}

PrecedingSameTag(d, e) == {m \in SameTagSiblings(d, e) : m < e}

LowerTag(d, e) == toLowerCase(d[e].nodeName)

Indexed(tag, k) == tag \o "[" \o ToString(k) \o "]"

ExpectedSegment(d, e) ==
    IF SameTagSiblings(d, e) = {} THEN LowerTag(d, e)
    ELSE Indexed(LowerTag(d, e), Cardinality(PrecedingSameTag(d, e)) + 1)

\* the elements from the topmost element ancestor down to e
RECURSIVE ElementPath(_, _)
ElementPath(d, e) ==
    IF parentElement(d, e) = Null THEN <<e>>
    ELSE ElementPath(d, parentElement(d, e)) \o <<e>>

ExpectedXPath(d, e) ==
    LET path == ElementPath(d, e)
    IN  "/" \o join([i \in 1..Len(path) |-> ExpectedSegment(d, path[i])], "/")

\* the segment the latest getXPath call wrote for the i-th element it walked
SegmentOfWalk(i) == call.parts[Len(call.parts) + 1 - i]

XPathWalked ==
    /\ call.fn = "getXPath"
    /\ IsElement(dom, call.node)
    /\ NoId(dom, call.node)

SelectorBuilt ==
    /\ call.fn = "generateSelector"
    /\ IsElement(dom, call.node)
    /\ NoId(dom, call.node)

\* C1: for a node with a non-empty id, generateSelector returns '#' + id and
\* getXPath returns '//*[@id="' + id + '"]', whatever its tag, classes,
\* siblings and ancestors, and getXPath walks no ancestor.
C1_IdShortCircuit ==
    (call.fn # "none" /\ dom[call.node].id # "") =>
        /\ call.fn = "getXPath" =>
              /\ call.result = Str("//*[@id=\"" \o dom[call.node].id \o "\"]")
              /\ call.walk = <<>>
        /\ call.fn = "generateSelector" =>
              call.result = Str("#" \o dom[call.node].id)

\* a node with id, classes, a parent and a sibling had its selector built
C1_Witness ==
    /\ call.fn = "generateSelector"
    /\ dom[call.node].id = "toolbar"
    /\ dom[call.node].classAttr # <<>>
    /\ parentElement(dom, call.node) # Null
    /\ dom[call.node].previousSibling # Null
    /\ call.result = Str("#toolbar")

\* C2: in getXPath for a node without id, the segment of the node and of each
\* element ancestor carries a positional predicate exactly when the element
\* has a preceding or following sibling element of the same tag name;
\* otherwise the segment is the bare lowercase tag name.
C2_PredicateIffSameTagSibling ==
    XPathWalked =>
        /\ Len(call.parts) = Len(call.walk)
        /\ \A i \in 1..Len(call.walk) :
              LET e == call.walk[i]
              IN  IF SameTagSiblings(dom, e) = {}
                  THEN SegmentOfWalk(i) = LowerTag(dom, e)
                  ELSE SegmentOfWalk(i) \in
                          {Indexed(LowerTag(dom, e), k) : k \in Nodes(dom)}

\* the walk met an ancestor with a same-tag sibling after it only, and the
\* node itself had none
C2_Witness ==
    /\ XPathWalked
    /\ Len(call.walk) >= 2
    /\ SameTagSiblings(dom, call.walk[1]) = {}
    /\ SameTagSiblings(dom, call.walk[2]) # {}
    /\ PrecedingSameTag(dom, call.walk[2]) = {}

\* C3: a positional predicate holds the element's 1-based position among
\* the sibling elements of the same tag name: siblings of another tag and
\* non-element siblings are not counted (the 3rd of 5 li gives li[3]).
C3_PredicateIsPositionAmongSameTag ==
    XPathWalked =>
        \A i \in 1..Len(call.walk) :
            LET e == call.walk[i]
            IN  SameTagSiblings(dom, e) # {} =>
                    SegmentOfWalk(i) =
                        Indexed(LowerTag(dom, e),
                                Cardinality(PrecedingSameTag(dom, e)) + 1)

\* the 3rd of 5 sibling li elements under a ul without id gave li[3]
C3_Witness ==
    /\ XPathWalked
    /\ dom[call.node].nodeName = "LI"
    /\ Cardinality(SameTagSiblings(dom, call.node)) = 4
    /\ Cardinality(PrecedingSameTag(dom, call.node)) = 2
    /\ dom[dom[call.node].parentNode].nodeName = "UL"
    /\ NoId(dom, dom[call.node].parentNode)
    /\ SegmentOfWalk(1) = "li[3]"

\* C4: for an element without id, getXPath returns '/' and the segments
\* joined with '/', one segment per element from the topmost element
\* ancestor down to the node; the document contributes none, an ancestor
\* with an id contributes its ordinary segment, and a node without a parent
\* yields one segment ('/div' for a div).
C4_OneSegmentPerElementOnPath ==
    XPathWalked =>
        LET path == ElementPath(dom, call.node)
        IN  /\ Len(call.parts) = Len(path)
            /\ \A i \in 1..Len(path) : call.walk[Len(path) + 1 - i] = path[i]
            /\ call.result = Str(ExpectedXPath(dom, call.node))
            /\ (dom[call.node].parentNode = Null /\ dom[call.node].nodeName = "DIV")
                  => call.result = Str("/div")

\* the walk passed an ancestor that has an id and ended at the document
C4_Witness ==
    /\ XPathWalked
    /\ Len(call.walk) >= 3
    /\ dom[call.walk[2]].id # ""
    /\ dom[call.walk[Len(call.walk)]].parentNode # Null
    /\ dom[dom[call.walk[Len(call.walk)]].parentNode].nodeType = DOCUMENT_NODE

\* the prefix a parent element gives: '#' + id when it has an id, else its
\* lowercase tag name
ExpectedParentPrefix(d, p) ==
    IF d[p].id # "" THEN "#" \o d[p].id ELSE toLowerCase(d[p].nodeName)

\* a div whose classes are btn, primary
IsDivBtnPrimary(n) ==
    /\ dom[n].nodeName = "DIV"
    /\ classList(dom, n) = <<"btn", "primary">>

\* C5: for an element without id whose parent element exists and is not the
\* body, generateSelector returns '<parentPrefix> > <nodePart>', the prefix
\* being '#' + parent id when the parent has an id and the parent's lowercase
\* tag name otherwise ('#toolbar > div.btn.primary' for div.btn.primary under
\* the parent with id toolbar).
C5_ParentPrefix ==
    (SelectorBuilt /\ parentElement(dom, call.node) # Null
                   /\ dom[parentElement(dom, call.node)].nodeName # "BODY") =>
        LET p == parentElement(dom, call.node)
        IN  /\ call.result = Str(ExpectedParentPrefix(dom, p) \o " > "
                                 \o selectorOfElement(dom, call.node))
            /\ (IsDivBtnPrimary(call.node) /\ dom[p].id = "toolbar")
                  => call.result = Str("#toolbar > div.btn.primary")

\* div.btn.primary under the parent with id toolbar had its selector built
C5_Witness ==
    /\ SelectorBuilt
    /\ parentElement(dom, call.node) # Null
    /\ dom[parentElement(dom, call.node)].id = "toolbar"
    /\ IsDivBtnPrimary(call.node)
    /\ call.result = Str("#toolbar > div.btn.primary")

\* the node part as the properties describe it: the lowercase tag name, and
\* '.' + class for every class of the node when it has any
RECURSIVE DotClasses(_)
DotClasses(classes) ==
    IF classes = <<>> THEN ""
    ELSE "." \o Head(classes) \o DotClasses(Tail(classes))

ClaimedNodePart(d, e) == LowerTag(d, e) \o DotClasses(classList(d, e))

\* the prefixes the elements of a document can give
ParentPrefixes(d) == {ExpectedParentPrefix(d, p) : p \in Elements(d)}

NoParentOrBody(d, e) ==
    \/ parentElement(d, e) = Null
    \/ d[parentElement(d, e)].nodeName = "BODY"

\* C6: for an element without id that has no parent, or whose parent is the
\* body (with or without an id), generateSelector returns the node part
\* alone, without ' > ' prefix; a div with no classes and no parent gives
\* exactly 'div'.
C6_NoPrefixWithoutParentOrUnderBody ==
    (SelectorBuilt /\ NoParentOrBody(dom, call.node)) =>
        /\ call.result = Str(selectorOfElement(dom, call.node))
        /\ (/\ dom[call.node].nodeName = "DIV"
            /\ classList(dom, call.node) = <<>>
            /\ dom[call.node].parentNode = Null) => call.result = Str("div")

\* C7: for an element without id, the node part generateSelector produces is
\* the lowercase tag name followed by '.' + class for every class in order,
\* and the bare tag name when the node has no classes, also when its class
\* attribute is present but holds no class.
C7_NodePartIsTagAndClasses ==
    SelectorBuilt =>
        LET part == ClaimedNodePart(dom, call.node)
        IN  call.result.val \in
                {part} \cup {prefix \o " > " \o part : prefix \in ParentPrefixes(dom)}

\* the elements that agree with e on id, tag, classes, and on the id and tag
\* of the parent element
AgreeOnFive(d, e) ==
    {m \in Elements(d) :
        /\ d[m].id = d[e].id
        /\ d[m].nodeName = d[e].nodeName
        /\ classList(d, m) = classList(d, e)
        /\ (parentElement(d, m) = Null) = (parentElement(d, e) = Null)
        /\ parentElement(d, e) # Null =>
              /\ d[parentElement(d, m)].id = d[parentElement(d, e)].id
              /\ d[parentElement(d, m)].nodeName = d[parentElement(d, e)].nodeName}

\* C8: generateSelector depends only on the node's id, tag and classes and
\* on the id and tag of its parent: nodes that agree on the five get the same
\* selector whatever their other ancestors and siblings are, and the
\* selector holds at most one ' > '.
C8_DependsOnNodeAndParentOnly ==
    (call.fn = "generateSelector" /\ IsElement(dom, call.node)) =>
        /\ \A m \in AgreeOnFive(dom, call.node) :
              generateSelector(dom, m) = call.result
        /\ call.result.val \in
              {"#" \o dom[call.node].id, selectorOfElement(dom, call.node)}
              \cup {prefix \o " > " \o selectorOfElement(dom, call.node) :
                       prefix \in ParentPrefixes(dom)}

\* C10 as stated: getXPath and generateSelector return a string for every
\* node, a node that is no element included.
C10_AlwaysAString ==
    call.fn # "none" => call.result.type = "string"

\* C10: getXPath and generateSelector return a string for every element,
\* with or without a parent; for a node that is no element getXPath returns
\* null and generateSelector fails with a TypeError.
C10_StringForEveryElement ==
    call.fn # "none" =>
        /\ IsElement(dom, call.node) => call.result.type = "string"
        /\ ~IsElement(dom, call.node) =>
              /\ call.fn = "getXPath" => call.result = JsNull
              /\ call.fn = "generateSelector" => call.result = TypeError

\* an element without parent and without id had its selector built
C10_Witness ==
    /\ SelectorBuilt
    /\ dom[call.node].parentNode = Null
    /\ call.result.type = "string"

\* C9: calling getXPath or generateSelector again on the same node of the
\* unmodified tree returns the strings an earlier extraction returned,
\* whatever picker operations (toggle, hover, click, key, toolbar) came
\* before or in between.
C9_SameNodeSameStrings ==
    selectedElement # JsNull =>
        /\ getXPath(dom, selectedElement.element) = selectedElement.xpath
        /\ generateSelector(dom, selectedElement.element) = selectedElement.selector
        /\ storage.selectedElement = selectedElement

\* an element without id was extracted; since then the picker was switched
\* off and a mouseout was handled
C9_Witness ==
    /\ selectedElement # JsNull
    /\ NoId(dom, selectedElement.element)
    /\ ~isPickerActive
    /\ highlightedElement = Null
    /\ Len(outbox) >= 1
    /\ lastEvent.type = "mouseout"

\* C11: getXPath, generateSelector and extractElementData leave the document
\* tree as it is: a step that extracts the data of an element (a click the
\* picker takes) creates, removes or moves no node and writes no tag, id,
\* class or style of any node.
C11_ExtractionLeavesTreeUnchanged ==
    [][(selectedElement' # selectedElement \/ outbox' # outbox
        \/ storage' # storage) => (dom' = dom /\ cursor' = cursor)]_vars

\* the data of an element was extracted by a click
C11_Witness ==
    /\ selectedElement # JsNull
    /\ toolbar = selectedElement.element
    /\ selectedElement.xpath.type = "string"
    /\ lastEvent = Event("click", TRUE, TRUE)

-----------------------------------------------------------------------------
(* Evaluating locators against a document: for a node, the location paths  *)
(* and the selectors that select it.  A string that is none of them does   *)
(* not select the node (or is no valid locator at all).                    *)

\* position of e among the children of its parent that have its tag
PositionAmongSameTag(d, e) == Cardinality(PrecedingSameTag(d, e)) + 1

\* the steps  tag  and  tag[k]  that reach e among the children of its
\* parent:  tag  selects every child with that tag,  tag[k]  the k-th
StepsReaching(d, e) ==
    {LowerTag(d, e), Indexed(LowerTag(d, e), PositionAmongSameTag(d, e))}

InDocument(d, e) ==
    LET top == ElementPath(d, e)[1]
    IN  d[top].parentNode # Null /\ d[d[top].parentNode].nodeType = DOCUMENT_NODE

\* the absolute location paths that reach e
RECURSIVE PathsReaching(_, _)
PathsReaching(d, e) ==
    IF parentElement(d, e) = Null
    THEN {"/" \o step : step \in StepsReaching(d, e)}
    ELSE {path \o "/" \o step : path \in PathsReaching(d, parentElement(d, e)),
                                 step \in StepsReaching(d, e)}

XPathSelects(d, xpath, e) ==
    /\ IsElement(d, e)
    /\ InDocument(d, e)
    /\ \/ d[e].id # "" /\ xpath = "//*[@id=\"" \o d[e].id \o "\"]"
       \/ xpath \in PathsReaching(d, e)

\* the compound selectors that match e: an optional tag, an optional id,
\* and classes of e
ClassRuns(d, e) ==
    LET cs == classList(d, e)
    IN  {""} \cup {"." \o cs[i] : i \in 1..Len(cs)}
        \cup {"." \o cs[i] \o "." \o cs[j] : i \in 1..Len(cs), j \in 1..Len(cs)}

CompoundsMatching(d, e) ==
    {t \o i \o c : t \in {"", LowerTag(d, e)},
                   i \in {""} \cup (IF d[e].id # "" THEN {"#" \o d[e].id} ELSE {}),
                   c \in ClassRuns(d, e)} \ {""}

SelectorMatches(d, selector, e) ==
    /\ IsElement(d, e)
    /\ \/ selector \in CompoundsMatching(d, e)
       \/ /\ parentElement(d, e) # Null
          /\ selector \in {p \o " > " \o c :
                              p \in CompoundsMatching(d, parentElement(d, e)),
                              c \in CompoundsMatching(d, e)}

\* C12: at computation time both locators resolve to the node they were
\* computed from: in the unmodified document the XPath of getXPath selects
\* the node, and no other node when the node has no id, and the selector of
\* generateSelector matches the node.
C12_LocatorsResolveToNode ==
    (call.fn # "none" /\ IsElement(dom, call.node) /\ InDocument(dom, call.node)) =>
        /\ call.fn = "getXPath" =>
              /\ XPathSelects(dom, call.result.val, call.node)
              /\ NoId(dom, call.node) =>
                    \A m \in Elements(dom) \ {call.node} :
                        ~XPathSelects(dom, call.result.val, m)
        /\ call.fn = "generateSelector" =>
              SelectorMatches(dom, call.result.val, call.node)

-----------------------------------------------------------------------------
(* The background script (src/background.js): the selections it keeps and  *)
(* the AI tasks it runs, with the backend's answer to fetch left open.     *)

\* selections kept by the background script
MaxSelections == 2
\* AI tasks taken by handleAiTask (aiTaskQueue is never emptied)
MaxAiTasks == 1
\* largest value of the clock
MaxClock == 1

\* the page has no part in the background script and the backend
NoPage ==
    /\ dom = <<>>
    /\ call = NoCall
    /\ PickerIdle

\* senders of a message: the content script of a tab, or the popup, whose
\* sender has no tab
NoTab == 0
TabIds == {1, 2}
Senders == TabIds \cup {NoTab}

\* element.html of the elements a page can send
ElementHtmls == {"<p>a</p>", "<p>b</p>"}

\* own properties of the responses object of getFallbackAiResponse
FallbackTasks == {"discuss", "figma", "playwright", "react"}
\* properties every object inherits from Object.prototype (a selection)
ObjectPrototypeKeys == {"constructor"}
\* task names a message can carry
TaskNames == FallbackTasks \cup {"summarize"} \cup ObjectPrototypeKeys

Undefined == [type |-> "undefined", task |-> "", output |-> ""]
JsFunction(name) == [type |-> "function", task |-> "", output |-> name]
JsObject(task, output) == [type |-> "object", task |-> task, output |-> output]

\* lines 159-294, the outputs by their first words
responses(task) ==
    CASE task = "discuss" -> JsObject("discuss", "**Element Analysis")
      [] task = "figma" -> JsObject("figma", "**Figma Component Structure")
      [] task = "playwright" -> JsObject("playwright", "**Playwright Test")
      [] task = "react" -> JsObject("react", "**React Component")

\* responses[task]: an own property, else one of the prototype, else undefined
responsesLookup(task) ==
    IF task \in FallbackTasks THEN responses(task)
    ELSE IF task \in ObjectPrototypeKeys THEN JsFunction("Object")
    ELSE Undefined

truthy(v) == v.type # "undefined"

\* line 296
getFallbackAiResponse(task) ==
    IF truthy(responsesLookup(task)) THEN responsesLookup(task)
    ELSE JsObject(task, "Task not supported in fallback mode.")

\* what the backend answers for a task when it answers
BackendResult(task) == JsObject(task, "ai output")

NoOutputs == [t \in TaskNames |-> Undefined]

\* lines 45-67; saving to the backend changes nothing the script keeps
handleElementSelected(tabId, html) ==
    LET selectionId == <<tabId, now>>
        selection == [id |-> selectionId, tabId |-> tabId, html |-> html,
                      aiOutputs |-> NoOutputs]
        same == {i \in 1..Len(currentSelections) :
                    currentSelections[i].id = selectionId}
    IN  /\ same # {} \/ Len(currentSelections) < MaxSelections
        /\ currentSelections' =
              IF same = {} THEN Append(currentSelections, selection)
              ELSE [i \in 1..Len(currentSelections) |->
                       IF i \in same THEN selection ELSE currentSelections[i]]
        /\ bgEvent' = [type |-> "selected"]
        /\ UNCHANGED <<aiTaskQueue, aiCalls, now>>
        /\ UNCHANGED notBackground

\* lines 69-79 and 99-114: up to the await of fetch; line 71 reads
\* sender.tab.id outside the try
handleAiTask(sender, task, html) ==
    /\ Len(aiTaskQueue) < MaxAiTasks
    /\ IF sender = NoTab
       THEN /\ bgEvent' = [type |-> "rejected", error |-> "TypeError"]
            /\ UNCHANGED <<aiTaskQueue, aiCalls>>
       ELSE /\ aiTaskQueue' = Append(aiTaskQueue,
                    [taskId |-> <<sender, task, now>>, task |-> task,
                     html |-> html, tabId |-> sender])
            /\ aiCalls' = aiCalls \cup
                    {[n |-> Len(aiTaskQueue) + 1, task |-> task, html |-> html,
                      tabId |-> sender, at |-> "fetch"]}
            /\ bgEvent' = [type |-> "started"]
    /\ UNCHANGED <<currentSelections, now>>
    /\ UNCHANGED notBackground

\* lines 82-88: the first selection of the tab with the element's html
matchingSelection(tabId, html) ==
    LET found == {i \in 1..Len(currentSelections) :
                     /\ currentSelections[i].tabId = tabId
                     /\ currentSelections[i].html = html}
    IN  IF found = {} THEN 0
        ELSE CHOOSE i \in found : \A j \in found : i <= j

\* lines 80-92: processAiTask has resolved with result, after the error it
\* caught, if any
storeResult(c, result, error) ==
    LET i == matchingSelection(c.tabId, c.html)
    IN  /\ currentSelections' =
              IF i = 0 THEN currentSelections
              ELSE [currentSelections EXCEPT ![i].aiOutputs[c.task] = result]
        /\ aiCalls' = aiCalls \ {c}
        /\ bgEvent' = [type |-> "settled", task |-> c.task, tabId |-> c.tabId,
                       html |-> c.html, error |-> error,
                       settled |-> "resolved", result |-> result]
        /\ UNCHANGED <<aiTaskQueue, now>>
        /\ UNCHANGED notBackground

\* lines 104-114 and 124-127: fetch rejects
fetchRejects(n) ==
    \E c \in aiCalls :
        /\ c.n = n /\ c.at = "fetch"
        /\ storeResult(c, getFallbackAiResponse(c.task), "Failed to fetch")

\* lines 116-118 and 124-127: the response is not OK
responseNotOk(n) ==
    \E c \in aiCalls :
        /\ c.n = n /\ c.at = "fetch"
        /\ storeResult(c, getFallbackAiResponse(c.task), "API call failed")

\* lines 116-120: the response is OK, up to the await of response.json()
responseOk(n) ==
    /\ \E c \in aiCalls :
          /\ c.n = n /\ c.at = "fetch"
          /\ aiCalls' = (aiCalls \ {c}) \cup {[c EXCEPT !.at = "json"]}
    /\ bgEvent' = [type |-> "response"]
    /\ UNCHANGED <<currentSelections, aiTaskQueue, now>>
    /\ UNCHANGED notBackground

\* lines 120-121: the body is the backend's result
jsonResolves(n) ==
    \E c \in aiCalls :
        /\ c.n = n /\ c.at = "json"
        /\ storeResult(c, BackendResult(c.task), "")

\* lines 120 and 124-127: the body is no JSON
jsonRejects(n) ==
    \E c \in aiCalls :
        /\ c.n = n /\ c.at = "json"
        /\ storeResult(c, getFallbackAiResponse(c.task), "SyntaxError")

\* Date.now() moves on
Tick ==
    /\ now < MaxClock
    /\ now' = now + 1
    /\ bgEvent' = [type |-> "tick"]
    /\ UNCHANGED <<currentSelections, aiTaskQueue, aiCalls>>
    /\ UNCHANGED notBackground

BackgroundInit ==
    /\ NoPage
    /\ OffPageIdle

BackgroundNext ==
    \/ \E t \in TabIds, h \in ElementHtmls : handleElementSelected(t, h)
    \/ \E s \in Senders, t \in TaskNames, h \in ElementHtmls : handleAiTask(s, t, h)
    \/ \E n \in 1..MaxAiTasks : fetchRejects(n)
    \/ \E n \in 1..MaxAiTasks : responseNotOk(n)
    \/ \E n \in 1..MaxAiTasks : responseOk(n)
    \/ \E n \in 1..MaxAiTasks : jsonResolves(n)
    \/ \E n \in 1..MaxAiTasks : jsonRejects(n)
    \/ Tick

BackgroundSpec == BackgroundInit /\ [][BackgroundNext]_vars

\* the fallback response the documentation promises for a task
ExpectedFallback(task) ==
    IF task \in FallbackTasks
    THEN JsObject(task, CASE task = "discuss" -> "**Element Analysis"
                          [] task = "figma" -> "**Figma Component Structure"
                          [] task = "playwright" -> "**Playwright Test"
                          [] task = "react" -> "**React Component")
    ELSE JsObject(task, "Task not supported in fallback mode.")

-----------------------------------------------------------------------------
(* The rate limiter of the AI endpoints (src/backend/middleware/auth.js,   *)
(* aiRateLimit), with the clock of the server in milliseconds.             *)

\* requests let through that the model follows, over all requesters
MaxPassed == 11

windowMs == 60 * 1000
maxRequests == 10

\* values Date.now() takes while requests arrive
Instants == {0, windowMs - 1, windowMs}

\* a request: req.user.id ("" without a user) and req.ip
Requesters == {[user |-> "u1", ip |-> "10.0.0.1"],
               [user |-> "", ip |-> "10.0.0.1"]}

\* line 104: req.user?.id || req.ip
requesterKey(req) == IF req.user # "" THEN req.user ELSE req.ip

\* Map get with the default of line 113, and Map set
mapGet(map, key) == IF key \in DOMAIN map THEN map[key] ELSE <<>>
mapSet(map, key, value) ==
    [k \in DOMAIN map \cup {key} |-> IF k = key THEN value ELSE map[k]]

\* line 114
validRequestsOf(userRequests, t) ==
    SelectSeq(userRequests, LAMBDA timestamp : t - timestamp < windowMs)

\* variant: one more request is let through
overLimit_Above(validRequests) == Len(validRequests) > maxRequests

\* line 116
overLimit(validRequests) == Len(validRequests) >= maxRequests

PassedTotal ==
    LET RECURSIVE Sum(_)
        Sum(ks) == IF ks = {} THEN 0
                   ELSE LET k == CHOOSE x \in ks : TRUE
                        IN  Len(passed[k]) + Sum(ks \ {k})
    IN  Sum(DOMAIN passed)

\* lines 102-128
aiRateLimit(req) ==
    LET userId == requesterKey(req)
        userRequests == mapGet(rateLimitStore, userId)
        validRequests == validRequestsOf(userRequests, serverTime)
    IN  /\ IF overLimit(validRequests)
           THEN /\ rateEvent' = [type |-> "response", key |-> userId,
                                 status |-> 429, next |-> FALSE]
                /\ UNCHANGED <<rateLimitStore, passed>>
           ELSE /\ PassedTotal < MaxPassed
                /\ rateLimitStore' =
                      mapSet(rateLimitStore, userId,
                             Append(validRequests, serverTime))
                /\ passed' = mapSet(passed, userId,
                                    Append(mapGet(passed, userId), serverTime))
                /\ rateEvent' = [type |-> "next", key |-> userId,
                                 status |-> 0, next |-> TRUE]
        /\ UNCHANGED serverTime
        /\ UNCHANGED notRate

\* Date.now() of the server moves on
ServerTick(t) ==
    /\ t > serverTime
    /\ serverTime' = t
    /\ rateEvent' = [type |-> "tick"]
    /\ UNCHANGED <<rateLimitStore, passed>>
    /\ UNCHANGED notRate

RateInit ==
    /\ NoPage
    /\ OffPageIdle

RateNext ==
    \/ \E req \in Requesters : aiRateLimit(req)
    \/ \E t \in Instants : ServerTick(t)

RateSpec == RateInit /\ [][RateNext]_vars

\* the requests of key k that were let through in the 60 seconds up to t
PassedInWindow(k, t) ==
    {i \in 1..Len(mapGet(passed, k)) :
        passed[k][i] <= t /\ t - passed[k][i] < windowMs}

\* C14: for each requester key, aiRateLimit lets at most 10 requests through
\* within any window of 60 seconds; a request that arrives while 10 passed
\* requests lie within the preceding 60 seconds is answered 429 without a
\* call of next() and is not recorded.
C14_AtMostTenPerWindow ==
    /\ [](\A k \in DOMAIN passed : \A i \in 1..Len(passed[k]) :
            Cardinality(PassedInWindow(k, passed[k][i])) <= 10)
    /\ [][\A req \in Requesters :
            (/\ rateEvent'.type \in {"response", "next"}
             /\ rateEvent'.key = requesterKey(req)
             /\ Cardinality(PassedInWindow(requesterKey(req), serverTime)) >= 10)
            => /\ rateEvent'.status = 429
               /\ ~rateEvent'.next
               /\ rateLimitStore' = rateLimitStore
               /\ passed' = passed]_vars

\* ten requests of a user passed at one instant, the eleventh was answered
\* 429 just before the window ended, and the other key was let through
C14_Witness ==
    /\ "u1" \in DOMAIN passed /\ Len(passed["u1"]) = 10
    /\ rateEvent = [type |-> "response", key |-> "u1", status |-> 429,
                    next |-> FALSE]
    /\ serverTime = windowMs - 1
    /\ "10.0.0.1" \in DOMAIN passed

-----------------------------------------------------------------------------
(* The routes over the collections (src/backend/routes/elements.js: the    *)
(* elements routes, lines 1-360, and the discussions routes, lines         *)
(* 361-811).  A handler runs up to its next await in one step; steps of    *)
(* different handlers interleave.                                          *)

\* handlers waiting at an await at one time
MaxHandlers == 2
\* _ids the database gives out
MaxIds == 3

UserIds == {"user_1", "user_2"}
PageUrl == "https://a.example/"
\* element.selector of a request body; the empty one fails the validation
Selectors == {"#hero", ""}
\* comment of a request body; the empty one fails the validation
Comments == {"first", "second", ""}

Ids == 1..MaxIds

\* a handler between two of its awaits; n tells handlers of equal requests
\* apart
Handler(route, pc, userId, text, id) ==
    [n |-> CHOOSE k \in 1..(Cardinality(handlers) + 1) :
              /\ \A h \in handlers : h.n # k
              /\ \A j \in 1..(k - 1) : \E h \in handlers : h.n = j,
     route |-> route, pc |-> pc, userId |-> userId, text |-> text, id |-> id,
     parentId |-> 0]

Respond(route, status, id, userId, duplicate) ==
    [route |-> route, status |-> status, id |-> id, userId |-> userId,
     duplicate |-> duplicate, returned |-> {}]

\* route handlers waiting at an await, the AI tasks in progress aside
Waiting == {h \in handlers : h.route # "processAiTaskAsync"}

findById(collection, id) == {doc \in collection : doc._id = id}

\* elements.js:58-74: validation and Element.findOne
postElements(userId, selector) ==
    /\ IF selector = ""
       THEN /\ response' = Respond("POST /api/elements", 400, 0, userId, FALSE)
            /\ UNCHANGED handlers
       ELSE /\ Cardinality(Waiting) < MaxHandlers
            /\ LET found == {doc \in Element : /\ doc.userId = userId
                                                 /\ doc.pageUrl = PageUrl
                                                 /\ doc.selector = selector}
               IN  \E existing \in (IF found = {} THEN {0}
                                    ELSE {doc._id : doc \in found}) :
                      handlers' = handlers \cup
                          {Handler("POST /api/elements", "save", userId,
                                   selector, existing)}
            /\ response' = NoResponse
    /\ UNCHANGED <<Element, Discussion, AiOutput, nextId>>
    /\ UNCHANGED notStore

\* elements.js:76-96: existing.save() or element.save(), and the response;
\* saving a document that is gone fails (lines 98-104)
postElementsSave(h) ==
    /\ h \in handlers /\ h.route = "POST /api/elements" /\ h.pc = "save"
    /\ handlers' = handlers \ {h}
    /\ IF h.id # 0
       THEN /\ UNCHANGED <<Element, nextId>>
            /\ response' =
                  IF findById(Element, h.id) # {}
                  THEN Respond("POST /api/elements", 200, h.id, h.userId, TRUE)
                  ELSE Respond("POST /api/elements", 500, h.id, h.userId, FALSE)
       ELSE /\ nextId <= MaxIds
            /\ Element' = Element \cup
                  {[_id |-> nextId, userId |-> h.userId, pageUrl |-> PageUrl,
                    selector |-> h.text]}
            /\ nextId' = nextId + 1
            /\ response' = Respond("POST /api/elements", 201, nextId, h.userId,
                                   FALSE)
    /\ UNCHANGED <<Discussion, AiOutput>>
    /\ UNCHANGED notStore

\* elements.js:241-251: Element.findById
deleteElements(id) ==
    /\ IF findById(Element, id) = {}
       THEN /\ response' = Respond("DELETE /api/elements/:id", 404, id, "", FALSE)
            /\ UNCHANGED handlers
       ELSE /\ Cardinality(Waiting) < MaxHandlers
            /\ handlers' = handlers \cup
                  {Handler("DELETE /api/elements/:id", "deleteDiscussions",
                           "", "", id)}
            /\ response' = NoResponse
    /\ UNCHANGED <<Element, Discussion, AiOutput, nextId>>
    /\ UNCHANGED notStore

\* elements.js:254: Discussion.deleteMany
deleteElementsDiscussions(h) ==
    /\ h \in handlers /\ h.route = "DELETE /api/elements/:id"
    /\ h.pc = "deleteDiscussions"
    /\ Discussion' = {doc \in Discussion : doc.elementId # h.id}
    /\ handlers' = (handlers \ {h}) \cup {[h EXCEPT !.pc = "deleteAiOutputs"]}
    /\ response' = NoResponse
    /\ UNCHANGED <<Element, AiOutput, nextId>>
    /\ UNCHANGED notStore

\* elements.js:255: AiOutput.deleteMany
deleteElementsAiOutputs(h) ==
    /\ h \in handlers /\ h.route = "DELETE /api/elements/:id"
    /\ h.pc = "deleteAiOutputs"
    /\ AiOutput' = {doc \in AiOutput : doc.elementId # h.id}
    /\ handlers' = (handlers \ {h}) \cup {[h EXCEPT !.pc = "findByIdAndDelete"]}
    /\ response' = NoResponse
    /\ UNCHANGED <<Element, Discussion, nextId>>
    /\ UNCHANGED notStore

\* elements.js:257-261: Element.findByIdAndDelete and the response
deleteElementsFindByIdAndDelete(h) ==
    /\ h \in handlers /\ h.route = "DELETE /api/elements/:id"
    /\ h.pc = "findByIdAndDelete"
    /\ Element' = {doc \in Element : doc._id # h.id}
    /\ handlers' = handlers \ {h}
    /\ response' = Respond("DELETE /api/elements/:id", 200, h.id, "", FALSE)
    /\ UNCHANGED <<Discussion, AiOutput, nextId>>
    /\ UNCHANGED notStore

\* elements.js:396-426: validation and Element.findById; parentId is 0 when
\* the body has none (null)
postDiscussions(elementId, userId, comment, parentId) ==
    /\ IF comment = ""
       THEN /\ response' = Respond("POST /api/discussions", 400, 0, userId, FALSE)
            /\ UNCHANGED handlers
       ELSE IF findById(Element, elementId) = {}
       THEN /\ response' = Respond("POST /api/discussions", 404, 0, userId, FALSE)
            /\ UNCHANGED handlers
       ELSE /\ Cardinality(Waiting) < MaxHandlers
            /\ handlers' = handlers \cup
                  {[Handler("POST /api/discussions",
                            IF parentId # 0 THEN "parent" ELSE "save",
                            userId, comment, elementId)
                       EXCEPT !.parentId = parentId]}
            /\ response' = NoResponse
    /\ UNCHANGED <<Element, Discussion, AiOutput, nextId>>
    /\ UNCHANGED notStore

\* elements.js:416-426: Discussion.findById(value.parentId) has answered
postDiscussionsParent(h) ==
    /\ h \in handlers /\ h.route = "POST /api/discussions" /\ h.pc = "parent"
    /\ IF findById(Discussion, h.parentId) = {}
       THEN /\ response' = Respond("POST /api/discussions", 404, 0, h.userId,
                                   FALSE)
            /\ handlers' = handlers \ {h}
       ELSE /\ response' = NoResponse
            /\ handlers' = (handlers \ {h}) \cup {[h EXCEPT !.pc = "save"]}
    /\ UNCHANGED <<Element, Discussion, AiOutput, nextId>>
    /\ UNCHANGED notStore

\* elements.js:428-437: discussion.save() and the response
postDiscussionsSave(h) ==
    /\ h \in handlers /\ h.route = "POST /api/discussions" /\ h.pc = "save"
    /\ nextId <= MaxIds
    /\ Discussion' = Discussion \cup
          {[_id |-> nextId, elementId |-> h.id, userId |-> h.userId,
            parentId |-> h.parentId,
            comment |-> h.text, edited |-> FALSE, status |-> "active",
            userReactions |-> <<>>,
            reactions |-> [likes |-> 0, dislikes |-> 0, hearts |-> 0]]}
    /\ nextId' = nextId + 1
    /\ handlers' = handlers \ {h}
    /\ response' = Respond("POST /api/discussions", 201, nextId, h.userId, FALSE)
    /\ UNCHANGED <<Element, AiOutput>>
    /\ UNCHANGED notStore

\* variant: the owner is not tested
putDiscussions_NoOwnerTest(id, userId, comment) ==
    /\ IF findById(Discussion, id) = {}
       THEN /\ response' = Respond("PUT /api/discussions/:id", 404, id, userId,
                                   FALSE)
            /\ UNCHANGED handlers
       ELSE IF comment = "" \/ userId = ""
       THEN /\ response' = Respond("PUT /api/discussions/:id", 400, id, userId,
                                   FALSE)
            /\ UNCHANGED handlers
       ELSE /\ Cardinality(Waiting) < MaxHandlers
            /\ handlers' = handlers \cup
                  {Handler("PUT /api/discussions/:id", "save", userId, comment,
                           id)}
            /\ response' = NoResponse
    /\ UNCHANGED <<Element, Discussion, AiOutput, nextId>>
    /\ UNCHANGED notStore

\* elements.js:537-569: Discussion.findById, the validation of the body and
\* the test of the owner
putDiscussions(id, userId, comment) ==
    /\ IF findById(Discussion, id) = {}
       THEN /\ response' = Respond("PUT /api/discussions/:id", 404, id, userId,
                                   FALSE)
            /\ UNCHANGED handlers
       ELSE IF comment = "" \/ userId = ""
       THEN /\ response' = Respond("PUT /api/discussions/:id", 400, id, userId,
                                   FALSE)
            /\ UNCHANGED handlers
       ELSE IF \E doc \in findById(Discussion, id) : doc.userId # userId
       THEN /\ response' = Respond("PUT /api/discussions/:id", 403, id, userId,
                                   FALSE)
            /\ UNCHANGED handlers
       ELSE /\ Cardinality(Waiting) < MaxHandlers
            /\ handlers' = handlers \cup
                  {Handler("PUT /api/discussions/:id", "save", userId, comment,
                           id)}
            /\ response' = NoResponse
    /\ UNCHANGED <<Element, Discussion, AiOutput, nextId>>
    /\ UNCHANGED notStore

\* the save of a loaded discussion: it writes the paths the handler set
saveDiscussion(id, Write(_)) ==
    {IF doc._id = id THEN Write(doc) ELSE doc : doc \in Discussion}

\* elements.js:571-576 with editComment (part_002:355-360)
putDiscussionsSave(h) ==
    /\ h \in handlers /\ h.route = "PUT /api/discussions/:id" /\ h.pc = "save"
    /\ LET editComment(doc) == [doc EXCEPT !.comment = h.text, !.edited = TRUE]
       IN  Discussion' = saveDiscussion(h.id, editComment)
    /\ handlers' = handlers \ {h}
    /\ response' =
          IF findById(Discussion, h.id) # {}
          THEN Respond("PUT /api/discussions/:id", 200, h.id, h.userId, FALSE)
          ELSE Respond("PUT /api/discussions/:id", 500, h.id, h.userId, FALSE)
    /\ UNCHANGED <<Element, AiOutput, nextId>>
    /\ UNCHANGED notStore

\* elements.js:588-608: Discussion.findById and the test of the owner
deleteDiscussions(id, userId) ==
    /\ IF findById(Discussion, id) = {}
       THEN /\ response' = Respond("DELETE /api/discussions/:id", 404, id,
                                   userId, FALSE)
            /\ UNCHANGED handlers
       ELSE IF \E doc \in findById(Discussion, id) : doc.userId # userId
       THEN /\ response' = Respond("DELETE /api/discussions/:id", 403, id,
                                   userId, FALSE)
            /\ UNCHANGED handlers
       ELSE /\ Cardinality(Waiting) < MaxHandlers
            /\ handlers' = handlers \cup
                  {Handler("DELETE /api/discussions/:id", "save", userId, "",
                           id)}
            /\ response' = NoResponse
    /\ UNCHANGED <<Element, Discussion, AiOutput, nextId>>
    /\ UNCHANGED notStore

\* elements.js:610-616
deleteDiscussionsSave(h) ==
    /\ h \in handlers /\ h.route = "DELETE /api/discussions/:id"
    /\ h.pc = "save"
    /\ LET softDelete(doc) == [doc EXCEPT !.status = "deleted"]
       IN  Discussion' = saveDiscussion(h.id, softDelete)
    /\ handlers' = handlers \ {h}
    /\ response' =
          IF findById(Discussion, h.id) # {}
          THEN Respond("DELETE /api/discussions/:id", 200, h.id, h.userId, FALSE)
          ELSE Respond("DELETE /api/discussions/:id", 500, h.id, h.userId, FALSE)
    /\ UNCHANGED <<Element, AiOutput, nextId>>
    /\ UNCHANGED notStore

-----------------------------------------------------------------------------
(* The AI task routes (src/unnamed/part_001, lines 523-947) and the        *)
(* AiOutput model (src/unnamed/part_002, lines 462-816).                   *)

\* task of a request body; the last one fails the validation
AiTasks == {"discuss", "react", "summarize"}
ValidAiTasks == {"discuss", "figma", "playwright", "react"}

\* part_001:560-586: validation and, with an elementId, Element.findById;
\* without one (elementId 0) the save fails, the schema requires it
postAiTask(elementId, userId, task) ==
    /\ IF task \notin ValidAiTasks
       THEN /\ response' = Respond("POST /api/ai-task", 400, 0, userId, FALSE)
            /\ UNCHANGED handlers
       ELSE IF elementId = 0
       THEN /\ response' = Respond("POST /api/ai-task", 500, 0, userId, FALSE)
            /\ UNCHANGED handlers
       ELSE IF findById(Element, elementId) = {}
       THEN /\ response' = Respond("POST /api/ai-task", 404, 0, userId, FALSE)
            /\ UNCHANGED handlers
       ELSE /\ Cardinality(Waiting) < MaxHandlers
            /\ handlers' = handlers \cup
                  {Handler("POST /api/ai-task", "save", userId, task, elementId)}
            /\ response' = NoResponse
    /\ UNCHANGED <<Element, Discussion, AiOutput, nextId>>
    /\ UNCHANGED notStore

\* part_001:588-615: aiOutput.save(), the start of processAiTaskAsync up to
\* its first await, and the response
postAiTaskSave(h) ==
    /\ h \in handlers /\ h.route = "POST /api/ai-task" /\ h.pc = "save"
    /\ nextId <= MaxIds
    /\ AiOutput' = AiOutput \cup
          {[_id |-> nextId, elementId |-> h.id, userId |-> h.userId,
            task |-> h.text, status |-> "pending"]}
    /\ nextId' = nextId + 1
    /\ handlers' = (handlers \ {h}) \cup
          {Handler("processAiTaskAsync", "findById", h.userId, h.text, nextId)}
    /\ response' = Respond("POST /api/ai-task", 202, nextId, h.userId, FALSE)
    /\ UNCHANGED <<Element, Discussion>>
    /\ UNCHANGED notStore

\* the save of a loaded AiOutput: it writes processing.status
saveAiOutput(id, status) ==
    {IF doc._id = id THEN [doc EXCEPT !.status = status] ELSE doc :
        doc \in AiOutput}

\* part_001:897-898: AiOutput.findById; without the document line 898
\* throws and the catch finds nothing to mark
processFindById(h) ==
    /\ h \in handlers /\ h.route = "processAiTaskAsync" /\ h.pc = "findById"
    /\ handlers' = (handlers \ {h}) \cup
          {[h EXCEPT !.pc = IF findById(AiOutput, h.id) = {}
                            THEN "catch" ELSE "saveProcessing"]}
    /\ response' = NoResponse
    /\ UNCHANGED <<Element, Discussion, AiOutput, nextId>>
    /\ UNCHANGED notStore

\* part_001:898-900: the status becomes 'processing'; the save of a
\* document that is gone fails
processSaveProcessing(h) ==
    /\ h \in handlers /\ h.route = "processAiTaskAsync"
    /\ h.pc = "saveProcessing"
    /\ AiOutput' = saveAiOutput(h.id, "processing")
    /\ handlers' = (handlers \ {h}) \cup
          {[h EXCEPT !.pc = IF findById(AiOutput, h.id) = {}
                            THEN "catch" ELSE "processTask"]}
    /\ response' = NoResponse
    /\ UNCHANGED <<Element, Discussion, nextId>>
    /\ UNCHANGED notStore

\* part_001:903, aiService.processTask (239-292): the call of the AI
\* service succeeds
processTaskResolves(h) ==
    /\ h \in handlers /\ h.route = "processAiTaskAsync" /\ h.pc = "processTask"
    /\ handlers' = (handlers \ {h}) \cup {[h EXCEPT !.pc = "markAsCompleted"]}
    /\ response' = NoResponse
    /\ UNCHANGED <<Element, Discussion, AiOutput, nextId>>
    /\ UNCHANGED notStore

\* part_001:903 and 908: the call of the AI service throws
processTaskThrows(h) ==
    /\ h \in handlers /\ h.route = "processAiTaskAsync" /\ h.pc = "processTask"
    /\ handlers' = (handlers \ {h}) \cup {[h EXCEPT !.pc = "catch"]}
    /\ response' = NoResponse
    /\ UNCHANGED <<Element, Discussion, AiOutput, nextId>>
    /\ UNCHANGED notStore

\* part_001:906 with markAsCompleted (part_002:660-671); the save of a
\* document that is gone fails
processMarkAsCompleted(h) ==
    /\ h \in handlers /\ h.route = "processAiTaskAsync"
    /\ h.pc = "markAsCompleted"
    /\ AiOutput' = saveAiOutput(h.id, "completed")
    /\ handlers' = IF findById(AiOutput, h.id) = {}
                   THEN (handlers \ {h}) \cup {[h EXCEPT !.pc = "catch"]}
                   ELSE handlers \ {h}
    /\ response' = NoResponse
    /\ UNCHANGED <<Element, Discussion, nextId>>
    /\ UNCHANGED notStore

\* variant: the catch marks nothing
processCatch_NoMark(h) ==
    /\ h \in handlers /\ h.route = "processAiTaskAsync" /\ h.pc = "catch"
    /\ handlers' = handlers \ {h}
    /\ response' = NoResponse
    /\ UNCHANGED <<Element, Discussion, AiOutput, nextId>>
    /\ UNCHANGED notStore

\* part_001:908-916 with markAsFailed (part_002:673-683)
processCatch(h) ==
    /\ h \in handlers /\ h.route = "processAiTaskAsync" /\ h.pc = "catch"
    /\ AiOutput' = saveAiOutput(h.id, "failed")
    /\ handlers' = handlers \ {h}
    /\ response' = NoResponse
    /\ UNCHANGED <<Element, Discussion, nextId>>
    /\ UNCHANGED notStore

-----------------------------------------------------------------------------
(* The backend with its element, discussion and AI task routes.            *)

StoreInit ==
    /\ NoPage
    /\ OffPageIdle

ElementsNext ==
    \/ \E u \in UserIds, sel \in Selectors : postElements(u, sel)
    \/ \E h \in handlers : postElementsSave(h)
    \/ \E id \in Ids : deleteElements(id)
    \/ \E h \in handlers : deleteElementsDiscussions(h)
    \/ \E h \in handlers : deleteElementsAiOutputs(h)
    \/ \E h \in handlers : deleteElementsFindByIdAndDelete(h)
    \/ \E id \in Ids : postDiscussions(id, "user_1", "first", 0)
    \/ \E h \in handlers : postDiscussionsSave(h)
    \/ \E id \in Ids : postAiTask(id, "user_1", "discuss")
    \/ \E h \in handlers : postAiTaskSave(h)

ElementsSpec == StoreInit /\ [][ElementsNext]_vars

\* the stored elements of a triple (userId, pageUrl, element.selector)
ElementsOfTriple(userId, pageUrl, selector) ==
    {doc \in Element : /\ doc.userId = userId
                       /\ doc.pageUrl = pageUrl
                       /\ doc.selector = selector}

\* C15: after any sequence of POST /api/elements requests, handlers that
\* interleave at their awaits included, the store holds at most one element
\* per (userId, pageUrl, element.selector), and a POST that is answered 201
\* has created the only element of its triple.
C15_OneElementPerTriple ==
    /\ \A e1 \in Element, e2 \in Element :
          (/\ e1.userId = e2.userId
           /\ e1.pageUrl = e2.pageUrl
           /\ e1.selector = e2.selector) => e1 = e2
    /\ (response.route = "POST /api/elements" /\ response.status = 201) =>
          \A doc \in findById(Element, response.id) :
              ElementsOfTriple(doc.userId, doc.pageUrl, doc.selector) = {doc}

\* C20: after DELETE /api/elements/:id answers success, the element is no
\* longer stored and no Discussion and no AiOutput with that elementId
\* remains; a DELETE that answers 404 was for an id that is not stored.
C20_DeleteRemovesElementAndItsDocuments ==
    response.route = "DELETE /api/elements/:id" =>
        /\ response.status \in {200, 404}
        /\ findById(Element, response.id) = {}
        /\ response.status = 200 =>
              /\ \A doc \in Discussion : doc.elementId # response.id
              /\ \A doc \in AiOutput : doc.elementId # response.id

-----------------------------------------------------------------------------
(* The discussions routes on their own: comments of two users on an        *)
(* element, edited and deleted.                                            *)

\* req.body.userId of a PUT or DELETE; "" when the body has none
BodyUserIds == UserIds \cup {""}

DiscussionsNext ==
    \/ postElements("user_1", "#hero")
    \/ \E h \in handlers : postElementsSave(h)
    \/ \E id \in Ids, u \in UserIds : postDiscussions(id, u, "first", 0)
    \/ \E h \in handlers : postDiscussionsSave(h)
    \/ \E id \in Ids, u \in BodyUserIds, c \in {"second", ""} :
          putDiscussions(id, u, c)
    \/ \E h \in handlers : putDiscussionsSave(h)
    \/ \E id \in Ids, u \in BodyUserIds : deleteDiscussions(id, u)
    \/ \E h \in handlers : deleteDiscussionsSave(h)

DiscussionsSpec == StoreInit /\ [][DiscussionsNext]_vars

DiscussionRoutes == {"PUT /api/discussions/:id", "DELETE /api/discussions/:id"}

\* the latest answer went to a request for a stored comment of another user
AnsweredNotOwner ==
    /\ response.route \in DiscussionRoutes
    /\ \E doc \in findById(Discussion, response.id) :
          doc.userId # response.userId

\* C18 as stated: a PUT or DELETE /api/discussions/:id whose userId is not
\* the comment's userId is answered 403.
C18_NotOwnerAnswered403 ==
    AnsweredNotOwner => response.status = 403

\* C18: PUT and DELETE /api/discussions/:id change the text, the edited flag
\* or the status of a comment only in a step that answers a request with the
\* comment's userId; a request with another userId is answered 403, or 400
\* when the body of a PUT fails the validation, and leaves the comments as
\* they are.
C18_OnlyOwnerChangesComment ==
    [][/\ \A doc \in Discussion : \A after \in findById(Discussion', doc._id) :
             after # doc =>
                /\ response'.route \in DiscussionRoutes
                /\ response'.status = 200
                /\ response'.id = doc._id
                /\ response'.userId = doc.userId
                /\ after.userId = doc.userId /\ after.elementId = doc.elementId
       /\ (/\ response'.route \in DiscussionRoutes
           /\ \E doc \in findById(Discussion, response'.id) :
                 doc.userId # response'.userId) =>
             /\ response'.status \in {400, 403}
             /\ response'.status = 400 =>
                   response'.route = "PUT /api/discussions/:id"
             /\ Discussion' = Discussion]_vars

\* the comment of user_1 was edited by its owner, and a request of user_2 for
\* it has just been answered 403
C18_Witness ==
    /\ response.route \in DiscussionRoutes
    /\ response.status = 403
    /\ response.userId = "user_2"
    /\ \E doc \in findById(Discussion, response.id) :
          /\ doc.userId = "user_1"
          /\ doc.comment = "second" /\ doc.edited /\ doc.status = "active"

-----------------------------------------------------------------------------
(* The AI task routes with the element routes that create and delete the   *)
(* element of a task.  Every step of processAiTaskAsync is taken in the    *)
(* end: the database answers and the call of the AI service settles.       *)

\* no route handler waits at an await
NoneWaiting == Waiting = {}

\* the routes take one request at a time; processAiTaskAsync runs beside them
AiNext ==
    \/ NoneWaiting /\ postElements("user_1", "#hero")
    \/ \E h \in handlers : postElementsSave(h)
    \/ NoneWaiting /\ \E id \in Ids : deleteElements(id)
    \/ \E h \in handlers : deleteElementsDiscussions(h)
    \/ \E h \in handlers : deleteElementsAiOutputs(h)
    \/ \E h \in handlers : deleteElementsFindByIdAndDelete(h)
    \/ NoneWaiting /\ \E id \in 0..MaxIds, t \in {"discuss", "summarize"} :
                          postAiTask(id, "user_1", t)
    \/ \E h \in handlers : postAiTaskSave(h)
    \/ \E h \in handlers : processFindById(h)
    \/ \E h \in handlers : processSaveProcessing(h)
    \/ \E h \in handlers : processTaskResolves(h)
    \/ \E h \in handlers : processTaskThrows(h)
    \/ \E h \in handlers : processMarkAsCompleted(h)
    \/ \E h \in handlers : processCatch(h)

AiSpec == StoreInit /\ [][AiNext]_vars

AiFairSpec ==
    /\ AiSpec
    /\ WF_vars(\E h \in handlers : processFindById(h))
    /\ WF_vars(\E h \in handlers : processSaveProcessing(h))
    /\ WF_vars(\E h \in handlers : processTaskResolves(h) \/ processTaskThrows(h))
    /\ WF_vars(\E h \in handlers : processMarkAsCompleted(h))
    /\ WF_vars(\E h \in handlers : processCatch(h))

\* the moves of processing.status the claim allows
StatusMoves == {<<"pending", "processing">>, <<"processing", "completed">>,
                <<"processing", "failed">>}

Settled(id) ==
    \E doc \in findById(AiOutput, id) : doc.status \in {"completed", "failed"}

-----------------------------------------------------------------------------
(* Authentication: authMiddleware (src/backend/middleware/auth.js) and the *)
(* routes over the users (src/backend/routes/auth.js).                     *)

\* users the Map holds
MaxUsers == 2

\* what the authentication routes leave alone: they use the clock, the
\* waiting handlers and the response of the backend
notAuth == <<pageVars, backgroundVars, rateLimitStore, passed, rateEvent,
             Element, Discussion, AiOutput, nextId>>

Usernames == {"alice", "bob"}
Emails == {"alice@example.com", "demo@fuzepicker.com"}

\* variant: the expiry is not looked at
verify_IgnoreExpiry(token, t) ==
    IF token.kind # "jwt" \/ token.key # JwtSecret
    THEN [error |-> "JsonWebTokenError", decoded |-> ""]
    ELSE [error |-> "", decoded |-> token.id]

\* jwt.verify: the payload, or the name of the error it throws
verify(token, t) ==
    IF token.kind # "jwt" \/ token.key # JwtSecret
    THEN [error |-> "JsonWebTokenError", decoded |-> ""]
    ELSE IF t >= token.exp
    THEN [error |-> "TokenExpiredError", decoded |-> ""]
    ELSE [error |-> "", decoded |-> token.id]

\* middleware/auth.js:4-55: req after the middleware, before the handler
authMiddleware(route, authHeader, t) ==
    LET answer(next, status, user) ==
            [route |-> route, authorization |-> authHeader, next |-> next,
             status |-> status, user |-> user, handled |-> FALSE]
    IN  IF authHeader.scheme = "none" THEN answer(FALSE, 401, "")
        ELSE IF authHeader.token.kind = "empty" THEN answer(FALSE, 401, "")
        ELSE LET verified == verify(authHeader.token, t)
             IN  IF verified.error = ""
                 THEN answer(TRUE, 0, verified.decoded)
                 ELSE answer(FALSE, 401, "")

usersWith(Test(_)) == {id \in DOMAIN users : Test(users[id])}

\* bcrypt.hash and bcrypt.compare: a hash matches the password it was made of
hash(password) == "hash of " \o password
compare(password, hashed) == hashed = hash(password)

\* the password of every registration
RegisterPassword == "secret1"

\* routes/auth.js:26-50: validation, the test for an existing user, and the
\* call of bcrypt.hash
register(username, email) ==
    /\ IF usersWith(LAMBDA user : user.email = email
                                     \/ user.username = username) # {}
       THEN /\ response' = Respond("POST /api/auth/register", 409, 0, "", FALSE)
            /\ UNCHANGED handlers
       ELSE /\ Cardinality(Waiting) < MaxHandlers
            /\ handlers' = handlers \cup
                  {Handler("POST /api/auth/register", "hash", username, email, 0)}
            /\ response' = NoResponse
    /\ request' = NoRequest
    /\ UNCHANGED <<users, serverTime>>
    /\ UNCHANGED notAuth

\* routes/auth.js:52-92: the user is stored under Date.now().toString()
registerHashed(h) ==
    /\ h \in handlers /\ h.route = "POST /api/auth/register" /\ h.pc = "hash"
    /\ LET userId == ToString(serverTime)
       IN  /\ userId \in DOMAIN users \/ Cardinality(DOMAIN users) < MaxUsers
           /\ users' = mapSet(users, userId,
                              [id |-> userId, username |-> h.userId,
                               email |-> h.text, name |-> "Name",
                               password |-> hash(RegisterPassword)])
           /\ response' = Respond("POST /api/auth/register", 201, 0, userId,
                                  FALSE)
    /\ handlers' = handlers \ {h}
    /\ request' = NoRequest
    /\ UNCHANGED serverTime
    /\ UNCHANGED notAuth

\* routes/auth.js:343-387
demo ==
    /\ LET demoUserId == "demo_user_" \o ToString(serverTime)
       IN  /\ demoUserId \in DOMAIN users \/ Cardinality(DOMAIN users) < MaxUsers
           /\ users' = mapSet(users, demoUserId,
                              [id |-> demoUserId, username |-> "demo_user",
                               email |-> "demo@fuzepicker.com",
                               name |-> "Demo User", password |-> ""])
           /\ response' = Respond("POST /api/auth/demo", 200, 0, demoUserId,
                                  FALSE)
    /\ request' = NoRequest
    /\ UNCHANGED <<handlers, serverTime>>
    /\ UNCHANGED notAuth

\* routes/auth.js:246-306 behind authMiddleware, up to the response or to the
\* call of bcrypt.compare; name, email and the passwords are "" when the body
\* has none. users.get gives the stored object, so the handler's assignments
\* are writes to the Map
profile(authHeader, name, email, currentPassword, newPassword) ==
    LET r == authMiddleware("PUT /api/auth/profile", authHeader, serverTime)
        user == users[r.user]
        named == IF name # "" THEN [user EXCEPT !.name = name] ELSE user
        taken == usersWith(LAMBDA u : u.email = email /\ u.id # user.id) # {}
        mailed == IF email # "" THEN [named EXCEPT !.email = email] ELSE named
    IN  /\ request' = [r EXCEPT !.handled = r.next]
        /\ IF ~r.next
           THEN /\ response' = Respond(r.route, 401, 0, "", FALSE)
                /\ UNCHANGED <<users, handlers>>
           ELSE IF newPassword # "" /\ currentPassword = ""
           THEN /\ response' = Respond(r.route, 400, 0, r.user, FALSE)
                /\ UNCHANGED <<users, handlers>>
           ELSE IF r.user \notin DOMAIN users
           THEN /\ response' = Respond(r.route, 404, 0, r.user, FALSE)
                /\ UNCHANGED <<users, handlers>>
           ELSE IF email # "" /\ taken
           THEN /\ response' = Respond(r.route, 409, 0, r.user, FALSE)
                /\ users' = mapSet(users, r.user, named)
                /\ UNCHANGED handlers
           ELSE IF newPassword # "" /\ currentPassword # ""
           THEN /\ Cardinality(Waiting) < MaxHandlers
                /\ users' = mapSet(users, r.user, mailed)
                /\ handlers' = handlers \cup
                      {Handler(r.route,
                               IF compare(currentPassword, user.password)
                               THEN "compare true" ELSE "compare false",
                               r.user, newPassword, 0)}
                /\ response' = NoResponse
           ELSE /\ response' = Respond(r.route, 200, 0, r.user, FALSE)
                /\ users' = mapSet(users, r.user, mailed)
                /\ UNCHANGED handlers
        /\ UNCHANGED serverTime
        /\ UNCHANGED notAuth

\* routes/auth.js:299-309: bcrypt.compare has answered
profileCompared(h) ==
    /\ h \in handlers /\ h.route = "PUT /api/auth/profile"
    /\ IF h.pc = "compare false"
       THEN /\ response' = Respond(h.route, 401, 0, h.userId, FALSE)
            /\ handlers' = handlers \ {h}
       ELSE /\ h.pc = "compare true"
            /\ response' = NoResponse
            /\ handlers' = (handlers \ {h}) \cup {[h EXCEPT !.pc = "hash"]}
    /\ request' = NoRequest
    /\ UNCHANGED <<users, serverTime>>
    /\ UNCHANGED notAuth

\* routes/auth.js:309-324: bcrypt.hash has answered
profileHashed(h) ==
    /\ h \in handlers /\ h.route = "PUT /api/auth/profile" /\ h.pc = "hash"
    /\ users' = mapSet(users, h.userId,
                       [users[h.userId] EXCEPT !.password = hash(h.text)])
    /\ response' = Respond(h.route, 200, 0, h.userId, FALSE)
    /\ handlers' = handlers \ {h}
    /\ request' = NoRequest
    /\ UNCHANGED serverTime
    /\ UNCHANGED notAuth

\* routes/auth.js:175-205, 208-243 and 336-341 behind authMiddleware: the
\* handlers of /me, /refresh and /logout read the users
protected(route, authHeader) ==
    LET r == authMiddleware(route, authHeader, serverTime)
    IN  /\ request' = [r EXCEPT !.handled = r.next]
        /\ response' =
              IF ~r.next THEN Respond(route, 401, 0, "", FALSE)
              ELSE IF route # "POST /api/auth/logout" /\ r.user \notin DOMAIN users
              THEN Respond(route, 404, 0, r.user, FALSE)
              ELSE Respond(route, 200, 0, r.user, FALSE)
        /\ UNCHANGED <<users, handlers, serverTime>>
        /\ UNCHANGED notAuth

\* Date.now() of the server moves on
AuthTick(t) ==
    /\ t > serverTime
    /\ serverTime' = t
    /\ response' = NoResponse
    /\ request' = NoRequest
    /\ UNCHANGED <<users, handlers>>
    /\ UNCHANGED notAuth

\* the headers requests carry: tokens for a user of the Map or for nobody,
\* signed with the secret or not, that expire at the end of the first minute
Tokens ==
    {Token(id, key, windowMs) : id \in DOMAIN users \cup {"ghost"},
                                key \in {JwtSecret, "other"}}
       \cup {MalformedToken, EmptyToken}
Signed == {token \in Tokens : token.key = JwtSecret}
Headers ==
    {NoHeader} \cup {Header("Bearer", token) : token \in Tokens}
               \cup {Header("bare", token) : token \in Signed}
\* the headers of a client that logged in, or none
OwnHeaders == {NoHeader} \cup {Header("Bearer", token) : token \in Signed}

ReadRoutes == {"GET /api/auth/me", "POST /api/auth/refresh",
               "POST /api/auth/logout"}

AuthInit ==
    /\ NoPage
    /\ OffPageIdle

AuthNext ==
    \/ \E username \in Usernames, email \in Emails : register(username, email)
    \/ \E h \in handlers : registerHashed(h)
    \/ demo
    \/ \E authHeader \in OwnHeaders, name \in {"", "New"},
          email \in Emails \cup {""} : profile(authHeader, name, email, "", "")
    \/ \E route \in ReadRoutes, authHeader \in Headers :
          protected(route, authHeader)
    \/ AuthTick(windowMs)

AuthSpec == AuthInit /\ [][AuthNext]_vars

\* C17: after any sequence of POST /auth/register, POST /auth/demo and PUT
\* /auth/profile requests, registrations that interleave at the await of the
\* password hash included, no two users share an email or a username.
C17_NoSharedEmailOrUsername ==
    \A a \in DOMAIN users, b \in DOMAIN users :
        a # b => /\ users[a].email # users[b].email
                 /\ users[a].username # users[b].username

\* C19: authMiddleware does exactly one of two things: it calls next() with
\* req.user set to the decoded token, only when the Authorization header
\* carries a token that verifies and is not expired, or it answers 401
\* without calling next(); the handlers of /auth/me, /auth/refresh,
\* /auth/profile and /auth/logout run only after next().
C19_NextOrUnauthorized ==
    request.route # "" =>
        LET token == request.authorization.token
            good == /\ request.authorization.scheme # "none"
                    /\ token.kind = "jwt"
                    /\ token.key = JwtSecret
                    /\ serverTime < token.exp
        IN  /\ request.next = (request.status # 401)
            /\ request.next => (request.status = 0 /\ request.user = token.id)
            /\ request.next = good
            /\ request.handled = request.next
            /\ ~request.next => response.status = 401

\* a token the server signed is presented after it expired and answered 401
C19_Witness ==
    /\ request.route = "GET /api/auth/me"
    /\ request.authorization.token.kind = "jwt"
    /\ request.authorization.token.key = JwtSecret
    /\ request.authorization.token.id \in DOMAIN users
    /\ serverTime >= request.authorization.token.exp
    /\ ~request.next /\ ~request.handled
    /\ request.status = 401

-----------------------------------------------------------------------------
(* PUT /api/auth/profile with its change of password, beside registrations   *)
(* and the demo user.                                                        *)

\* the bodies of PUT /api/auth/profile: name, email, currentPassword and
\* newPassword, "" when absent
ProfileBodies ==
    {<<"New", email, "", "">> : email \in Emails \cup {""}}
       \cup {<<"", "", current, "changed">> :
                current \in {RegisterPassword, "wrong1", ""}}
       \cup {<<"New", "", "wrong1", "changed">>}

ProfileNext ==
    \/ register("alice", "alice@example.com")
    \/ register("bob", "demo@fuzepicker.com")
    \/ \E h \in handlers : registerHashed(h)
    \/ demo
    \/ \E authHeader \in OwnHeaders, body \in ProfileBodies :
          profile(authHeader, body[1], body[2], body[3], body[4])
    \/ \E h \in handlers : profileCompared(h)
    \/ \E h \in handlers : profileHashed(h)
    \/ AuthTick(windowMs)

ProfileSpec == AuthInit /\ [][ProfileNext]_vars

\* the step answered a PUT /api/auth/profile with an error of its handler
ProfileErrorAnswered ==
    /\ response'.route = "PUT /api/auth/profile"
    /\ response'.status \in {409, 401}
    /\ response'.userId # ""

\* C23: a PUT /auth/profile answered 409 (email taken) or 401 (currentPassword
\* wrong) leaves name, email and password of the stored user as they were.
C23_ErrorLeavesUserUnchanged ==
    [][ProfileErrorAnswered =>
          /\ users'[response'.userId].name = users[response'.userId].name
          /\ users'[response'.userId].email = users[response'.userId].email
          /\ users'[response'.userId].password =
                users[response'.userId].password]_vars

-----------------------------------------------------------------------------
(* The reactions of a comment: POST and DELETE /api/discussions/:id/reactions *)
(* with the methods addReaction and removeReaction of the Discussion model.   *)

\* reactionSchema (elements.js:381-384) accepts the first three
ReactionTypes == {"like", "dislike", "heart"}
BodyReactionTypes == ReactionTypes \cup {"laugh"}

\* Array.prototype.filter over userReactions
withoutUser(userReactions, userId) ==
    SelectSeq(userReactions, LAMBDA r : r.userId # userId)

ofType(userReactions, type) ==
    SelectSeq(userReactions, LAMBDA r : r.type = type)

\* part_002:344-346 and 355-357: the counts are the lengths of the filters
reactionCounts(userReactions) ==
    [likes |-> Len(ofType(userReactions, "like")),
     dislikes |-> Len(ofType(userReactions, "dislike")),
     hearts |-> Len(ofType(userReactions, "heart"))]

\* variant: the user's previous reaction is not filtered out
addReaction_KeepsPrevious(doc, userId, reactionType) ==
    LET pushed == Append(doc.userReactions,
                         [userId |-> userId, type |-> reactionType])
    IN  [doc EXCEPT !.userReactions = pushed,
                    !.reactions = reactionCounts(pushed)]

\* part_002:333-349
addReaction(doc, userId, reactionType) ==
    LET filtered == withoutUser(doc.userReactions, userId)
        pushed == Append(filtered, [userId |-> userId, type |-> reactionType])
    IN  [doc EXCEPT !.userReactions = pushed,
                    !.reactions = reactionCounts(pushed)]

\* part_002:351-360
removeReaction(doc, userId) ==
    LET filtered == withoutUser(doc.userReactions, userId)
    IN  [doc EXCEPT !.userReactions = filtered,
                    !.reactions = reactionCounts(filtered)]

\* elements.js:626-645: Discussion.findById, then the validation of the body
postReactions(id, userId, type) ==
    /\ IF findById(Discussion, id) = {}
       THEN /\ response' = Respond("POST /api/discussions/:id/reactions", 404,
                                   id, userId, FALSE)
            /\ UNCHANGED handlers
       ELSE IF userId = "" \/ type \notin ReactionTypes
       THEN /\ response' = Respond("POST /api/discussions/:id/reactions", 400,
                                   id, userId, FALSE)
            /\ UNCHANGED handlers
       ELSE /\ Cardinality(Waiting) < MaxHandlers
            /\ handlers' = handlers \cup
                  {Handler("POST /api/discussions/:id/reactions", "save",
                           userId, type, id)}
            /\ response' = NoResponse
    /\ UNCHANGED <<Element, Discussion, AiOutput, nextId>>
    /\ UNCHANGED notStore

\* elements.js:647-652: discussion.addReaction and the response
postReactionsSave(h) ==
    /\ h \in handlers /\ h.route = "POST /api/discussions/:id/reactions"
    /\ h.pc = "save"
    /\ Discussion' = {IF doc._id = h.id THEN addReaction(doc, h.userId, h.text)
                      ELSE doc : doc \in Discussion}
    /\ handlers' = handlers \ {h}
    /\ response' =
          IF findById(Discussion, h.id) # {}
          THEN Respond("POST /api/discussions/:id/reactions", 200, h.id,
                       h.userId, FALSE)
          ELSE Respond("POST /api/discussions/:id/reactions", 500, h.id,
                       h.userId, FALSE)
    /\ UNCHANGED <<Element, AiOutput, nextId>>
    /\ UNCHANGED notStore

\* elements.js:664-682: Discussion.findById, then the test of req.body.userId
deleteReactions(id, userId) ==
    /\ IF findById(Discussion, id) = {}
       THEN /\ response' = Respond("DELETE /api/discussions/:id/reactions",
                                   404, id, userId, FALSE)
            /\ UNCHANGED handlers
       ELSE IF userId = ""
       THEN /\ response' = Respond("DELETE /api/discussions/:id/reactions",
                                   400, id, userId, FALSE)
            /\ UNCHANGED handlers
       ELSE /\ Cardinality(Waiting) < MaxHandlers
            /\ handlers' = handlers \cup
                  {Handler("DELETE /api/discussions/:id/reactions", "save",
                           userId, "", id)}
            /\ response' = NoResponse
    /\ UNCHANGED <<Element, Discussion, AiOutput, nextId>>
    /\ UNCHANGED notStore

\* elements.js:684-689: discussion.removeReaction and the response
deleteReactionsSave(h) ==
    /\ h \in handlers /\ h.route = "DELETE /api/discussions/:id/reactions"
    /\ h.pc = "save"
    /\ Discussion' = {IF doc._id = h.id THEN removeReaction(doc, h.userId)
                      ELSE doc : doc \in Discussion}
    /\ handlers' = handlers \ {h}
    /\ response' =
          IF findById(Discussion, h.id) # {}
          THEN Respond("DELETE /api/discussions/:id/reactions", 200, h.id,
                       h.userId, FALSE)
          ELSE Respond("DELETE /api/discussions/:id/reactions", 500, h.id,
                       h.userId, FALSE)
    /\ UNCHANGED <<Element, AiOutput, nextId>>
    /\ UNCHANGED notStore

\* the calls on a discussion come one after the other: a request starts when
\* no handler waits
ReactionsNext ==
    \/ NoneWaiting /\ postElements("user_1", "#hero")
    \/ \E h \in handlers : postElementsSave(h)
    \/ NoneWaiting /\ \E id \in Ids : postDiscussions(id, "user_1", "first", 0)
    \/ \E h \in handlers : postDiscussionsSave(h)
    \/ NoneWaiting /\ \E id \in Ids, u \in BodyUserIds, t \in BodyReactionTypes :
          postReactions(id, u, t)
    \/ \E h \in handlers : postReactionsSave(h)
    \/ NoneWaiting /\ \E id \in Ids, u \in BodyUserIds : deleteReactions(id, u)
    \/ \E h \in handlers : deleteReactionsSave(h)

ReactionsSpec == StoreInit /\ [][ReactionsNext]_vars

\* the entries of a user in userReactions
reactionsOf(doc, userId) ==
    SelectSeq(doc.userReactions, LAMBDA r : r.userId = userId)

\* C22: after any sequence of addReaction and removeReaction calls each userId
\* appears at most once in userReactions and the three counts equal the number
\* of entries of their type; a user's new reaction replaces the previous one
\* and leaves the other users' entries alone; removeReaction for a user
\* without a reaction changes nothing.
C22_OneReactionPerUserAndCounts ==
    /\ [](\A doc \in Discussion :
            /\ \A u \in UserIds : Len(reactionsOf(doc, u)) <= 1
            /\ doc.reactions.likes =
                  Cardinality({i \in DOMAIN doc.userReactions :
                                  doc.userReactions[i].type = "like"})
            /\ doc.reactions.dislikes =
                  Cardinality({i \in DOMAIN doc.userReactions :
                                  doc.userReactions[i].type = "dislike"})
            /\ doc.reactions.hearts =
                  Cardinality({i \in DOMAIN doc.userReactions :
                                  doc.userReactions[i].type = "heart"}))
    /\ [][\A h \in handlers \ handlers' :
            \A doc \in findById(Discussion, h.id) :
            \A after \in findById(Discussion', h.id) :
              /\ h.route = "POST /api/discussions/:id/reactions" =>
                    /\ reactionsOf(after, h.userId) =
                          <<[userId |-> h.userId, type |-> h.text]>>
                    /\ \A u \in UserIds \ {h.userId} :
                          reactionsOf(after, u) = reactionsOf(doc, u)
              /\ (/\ h.route = "DELETE /api/discussions/:id/reactions"
                  /\ reactionsOf(doc, h.userId) = <<>>) =>
                    Discussion' = Discussion]_vars

\* a heart has just been stored for a user, behind the like of another user
C22_Witness ==
    /\ response.route = "POST /api/discussions/:id/reactions"
    /\ response.status = 200
    /\ \E doc \in findById(Discussion, response.id) :
          /\ Len(doc.userReactions) = 2
          /\ doc.userReactions[2] = [userId |-> response.userId, type |-> "heart"]
          /\ doc.reactions = [likes |-> 1, dislikes |-> 0, hearts |-> 1]

-----------------------------------------------------------------------------
(* The listings of comments beside their soft delete: GET /api/discussions,  *)
(* GET /api/discussions/element/:elementId, GET /api/discussions/user/:userId *)

\* elements.js:463-476 and part_002:371-394: the query of a listing; elementId 0
\* and userId "" stand for a filter the query does not have
find(elementId, userId, includeReplies) ==
    {doc \in Discussion :
        /\ doc.status = "active"
        /\ elementId # 0 => doc.elementId = elementId
        /\ userId # "" => doc.userId = userId
        /\ ~includeReplies => doc.parentId = 0}

\* part_002:318-322: the virtual replies of a comment, the comments whose
\* parentId is its _id
replies(doc) == {reply \in Discussion : reply.parentId = doc._id}

\* populate('replies'): the _ids of the comments in the answer
populateReplies(docs) ==
    {doc._id : doc \in docs} \cup
       UNION {{reply._id : reply \in replies(doc)} : doc \in docs}

\* the answer of a listing: the comments it carries
Listed(route, elementId, userId, returned) ==
    [Respond(route, 200, elementId, userId, FALSE) EXCEPT !.returned = returned]

\* elements.js:449-498
getDiscussions(elementId, userId, includeReplies) ==
    /\ response' = Listed("GET /api/discussions", elementId, userId,
                          populateReplies(find(elementId, userId, includeReplies)))
    /\ UNCHANGED <<Element, Discussion, AiOutput, handlers, nextId>>
    /\ UNCHANGED notStore

\* elements.js:701-731 with findByElement (part_002:371-385); getThreadStats
\* (part_002:396-398) calls mongoose.Types.ObjectId without new, which throws in
\* the versions of mongoose where ObjectId is a class: then the answer is 500
getDiscussionsElement(elementId, includeReplies, statsThrow) ==
    /\ response' =
          IF statsThrow
          THEN Respond("GET /api/discussions/element/:elementId", 500,
                       elementId, "", FALSE)
          ELSE Listed("GET /api/discussions/element/:elementId", elementId, "",
                      populateReplies(find(elementId, "", includeReplies)))
    /\ UNCHANGED <<Element, Discussion, AiOutput, handlers, nextId>>
    /\ UNCHANGED notStore

\* elements.js:734-750 with findByUser (part_002:387-394): the element is
\* populated, the replies are not
getDiscussionsUser(userId) ==
    /\ response' = Listed("GET /api/discussions/user/:userId", 0, userId,
                          {doc._id : doc \in find(0, userId, TRUE)})
    /\ UNCHANGED <<Element, Discussion, AiOutput, handlers, nextId>>
    /\ UNCHANGED notStore

\* the requests come one after the other
ListingNext ==
    \/ NoneWaiting /\ postElements("user_1", "#hero")
    \/ \E h \in handlers : postElementsSave(h)
    \/ NoneWaiting /\ \E id \in Ids, u \in UserIds, parentId \in {0} \cup Ids :
          postDiscussions(id, u, "first", parentId)
    \/ \E h \in handlers : postDiscussionsParent(h)
    \/ \E h \in handlers : postDiscussionsSave(h)
    \/ NoneWaiting /\ \E id \in Ids, u \in UserIds : deleteDiscussions(id, u)
    \/ \E h \in handlers : deleteDiscussionsSave(h)
    \/ NoneWaiting /\ \E id \in {0} \cup Ids, u \in {""} \cup UserIds,
                         includeReplies \in BOOLEAN :
          getDiscussions(id, u, includeReplies)
    \/ NoneWaiting /\ \E id \in Ids, includeReplies \in BOOLEAN,
                         statsThrow \in BOOLEAN :
          getDiscussionsElement(id, includeReplies, statsThrow)
    \/ NoneWaiting /\ \E u \in UserIds : getDiscussionsUser(u)

ListingSpec == StoreInit /\ [][ListingNext]_vars

ListingRoutes == {"GET /api/discussions",
                  "GET /api/discussions/element/:elementId",
                  "GET /api/discussions/user/:userId"}

\* C24: DELETE /api/discussions/:id by the author keeps the document and sets
\* its status to 'deleted'; the status stays 'deleted', and the listings
\* return only comments with status 'active'.
C24_DeletedCommentNeverListed ==
    /\ response.route = "DELETE /api/discussions/:id" /\ response.status = 200
          => \E doc \in findById(Discussion, response.id) :
                doc.status = "deleted"
    /\ response.route \in ListingRoutes =>
          \A id \in response.returned : \A doc \in findById(Discussion, id) :
             doc.status = "active"

\* C21: every stored discussion refers to a stored element, also when a POST
\* /api/discussions interleaves with a DELETE /api/elements/:id of the same
\* element.
C21_DiscussionRefersToStoredElement ==
    \A d \in Discussion : findById(Element, d.elementId) # {}

\* C25: while isPickerActive is false, and for an event whose target lies
\* inside the extension's shadow host, the mouseover, mouseout and click
\* handlers change nothing: highlightedElement, selectedElement, the toolbar
\* and the storage stay as they were, no message is sent, and the click is
\* neither prevented nor stopped.
C25_IgnoredEventsChangeNothing ==
    [][\A target \in Elements(dom) :
          (/\ ~isPickerActive \/ closestShadowHost(dom, target)
           /\ \/ handleMouseOver(target)
              \/ handleMouseOut(target)
              \/ handleClick(target))
          => /\ UNCHANGED <<isPickerActive, highlightedElement, selectedElement,
                            toolbar, cursor, storage, outbox, dom>>
             /\ ~lastEvent'.defaultPrevented
             /\ ~lastEvent'.propagationStopped]_vars

\* the picker is on with an element highlighted and one selected, and the
\* click just handled was left to the page: its target is in the shadow host
C25_Witness ==
    /\ isPickerActive
    /\ lastEvent = Event("click", FALSE, FALSE)
    /\ highlightedElement # Null
    /\ selectedElement # JsNull
    /\ \E target \in Elements(dom) : closestShadowHost(dom, target)

=============================================================================
